---------------------------- MODULE Spec2Model ----------------------------
(***************************************************************************)
(* Model of the binary waveform / sequence file codec of the Tektronix     *)
(* AWG5014 driver (qcodes/instrument_drivers/tektronix/AWG5014.py), of the *)
(* driver's operations that send waveforms and files to the instrument and *)
(* read its message queue, and of the experiments of the database as used  *)
(* by qcodes/tests/dataset/test_experiment_container.py.                   *)
(*                                                                         *)
(* Conventions                                                             *)
(*   - A Python str is a sequence of code points, a bytes object is a      *)
(*     sequence of numbers 0..255.                                         *)
(*   - A waveform sample is a float.  A finite sample is the rational      *)
(*     num / WDen; NaN is a separate value.  For WDen in {4, 5} the        *)
(*     product w * 8191 computed in double precision rounds to the same    *)
(*     integer as the exact rational product (the only exact ties are at   *)
(*     w = +-0.5, +-1.5, which are dyadic and exact in binary floating     *)
(*     point), so np.round is modelled on the exact rational.              *)
(*   - An operation that can raise returns a record whose field "raised"   *)
(*     names the exception ("none" when it returns normally).              *)
(***************************************************************************)
EXTENDS Integers, Sequences, FiniteSets, TLC

VARIABLES
    pc,          \* which call is pending ("pack_waveform", ...) or "done"
    wf,          \* pack_waveform: argument wf
    m1,          \* pack_waveform: argument m1
    m2,          \* pack_waveform: argument m2
    packed_wf,   \* pack_waveform: outcome [raised, value]
    name,        \* _pack_record: argument name
    value,       \* _pack_record: argument value
    dtype,       \* _pack_record: argument dtype
    packed_record, \* _pack_record: outcome [raised, value]
    packed_waveforms, \* generate_awg_file: dict name -> packed samples
    wfname_l,    \* generate_awg_file: array of waveform names, one row per channel
    nrep,        \* generate_awg_file: repetitions per sequence element
    trig_wait,   \* generate_awg_file: trigger wait state per sequence element
    goto_state,  \* generate_awg_file: goto state per sequence element
    jump_to,     \* generate_awg_file: jump target per sequence element
    channel_cfg, \* generate_awg_file: dict of channel settings (the caller's object)
    sequence_cfg, \* generate_awg_file: dict of head settings, or None
    preservechannelsettings, \* generate_awg_file: flag
    awg_file,    \* generate_awg_file: outcome [raised, value]
    latest,      \* the driver's parameter cache (get_latest of the channel parameters)
    instrument,  \* the settings the instrument reports when queried
    localtime,   \* the struct_time the clock gives
    asked,       \* the queries sent to the instrument so far
    waveforms,   \* make_send_and_load_awg_file: waveforms, one list per channel
    m1s,         \* make_send_and_load_awg_file: marker 1 arrays, same shape
    m2s,         \* make_send_and_load_awg_file: marker 2 arrays, same shape
    channels,    \* make_send_and_load_awg_file: channel numbers, or None
    upload,      \* make_send_and_load_awg_file: outcome [raised, value]
    written,     \* the messages written to the visa handle so far
    wfmname,     \* send_waveform_to_list: argument wfmname
    files,       \* self._values['files']: dict name -> [w, m1, m2]
    listed,      \* send_waveform_to_list: outcome [raised, value]
    timeout,     \* visa_handle.timeout in ms
    queue,       \* number of messages waiting in the instrument's output queue
    original_timeout, \* clear_message_queue: local original_timeout
    gotexception, \* clear_message_queue: local gotexception
    ready,       \* is_awg_ready: outcome [raised, value]
    timeout_before, \* history: visa_handle.timeout when the call began
    experiments, \* the experiments in the database, oldest first
    exp_name,    \* load_or_create_experiment: argument experiment_name
    sample_name, \* load_or_create_experiment: argument sample_name
    experiment   \* load_or_create_experiment: outcome [raised, value]

packVars == <<wf, m1, m2, packed_wf>>
recVars == <<name, value, dtype, packed_record>>
fileArgs == <<packed_waveforms, wfname_l, nrep, trig_wait, goto_state, jump_to,
              sequence_cfg, preservechannelsettings>>
envVars == <<latest, instrument, localtime>>
fileVars == <<fileArgs, channel_cfg, awg_file, envVars, asked>>
uploadVars == <<waveforms, m1s, m2s, channels, upload>>
listVars == <<wfmname, files, listed>>
sessionVars == <<timeout, queue, original_timeout, gotexception, ready, timeout_before>>
expVars == <<experiments, exp_name, sample_name, experiment>>
driverVars == <<uploadVars, written, listVars, sessionVars, expVars>>
vars == <<pc, packVars, recVars, fileVars, driverVars>>

----------------------------------------------------------------------------
(* Bounds of the model *)

\* longest waveform / marker sequence drawn
MaxLen == 2
\* denominator of the grid of finite waveform samples (samples are num/WDen)
WDen == 4

----------------------------------------------------------------------------
(* Generic helpers *)

RECURSIVE SeqsUpTo(_, _)
\* all sequences over S of length 0..n
SeqsUpTo(S, n) ==
    IF n = 0 THEN {<<>>}
    ELSE LET shorter == SeqsUpTo(S, n - 1)
         IN  shorter \cup {Append(s, x) : s \in {t \in shorter : Len(t) = n - 1}, x \in S}

\* number of positions of s holding a value equal to v (list.count)
Count(s, v) == Cardinality({i \in 1..Len(s) : s[i] = v})

----------------------------------------------------------------------------
(* Floating point samples *)

NaN == [nan |-> TRUE, num |-> 0]
Fin(n) == [nan |-> FALSE, num |-> n]

\* x < y on floats: every comparison with NaN is false
FloatLt(x, y) == ~x.nan /\ ~y.nan /\ x.num < y.num
\* x < c and x > c for a float x and an integer literal c
FloatLtInt(x, c) == ~x.nan /\ x.num < c * WDen
FloatGtInt(x, c) == ~x.nan /\ x.num > c * WDen

RECURSIVE PyMinFrom(_, _, _)
\* Python's builtin min over an iterable: keeps the current candidate unless
\* the next item compares strictly less
PyMinFrom(s, i, cur) ==
    IF i > Len(s) THEN cur
    ELSE PyMinFrom(s, i + 1, IF FloatLt(s[i], cur) THEN s[i] ELSE cur)
PyMin(s) == PyMinFrom(s, 2, s[1])

RECURSIVE PyMaxFrom(_, _, _)
\* Python's builtin max: replaces the candidate when the next item compares
\* strictly greater
PyMaxFrom(s, i, cur) ==
    IF i > Len(s) THEN cur
    ELSE PyMaxFrom(s, i + 1, IF FloatLt(cur, s[i]) THEN s[i] ELSE cur)
PyMax(s) == PyMaxFrom(s, 2, s[1])

\* floor of the rational a / b, b > 0
FloorDiv(a, b) == a \div b

\* np.round of the rational a / b (b > 0): to nearest, ties to even
RoundHalfEven(a, b) ==
    LET f == FloorDiv(a, b)
        r2 == 2 * (a - f * b)
    IN  IF r2 < b THEN f
        ELSE IF r2 > b THEN f + 1
        ELSE IF f % 2 = 0 THEN f ELSE f + 1

----------------------------------------------------------------------------
(* pack_waveform *)

\* results a float -> uint16 conversion may give when the float is NaN or
\* outside the range of the target type (undefined in C; representative
\* outcomes, besides the wrapped value)
UndefCast == {0, 32768, 65535}

\* variant: the scaled amplitude truncated instead of rounded
SampleSumTruncated(w, a, b) ==
    FloorDiv(w.num * 8191, WDen) + 8191 + 16384 * a + 32768 * b

\* variant: marker 1 weighted 2^13 instead of 2^14
SampleSumMarkerBit13(w, a, b) ==
    RoundHalfEven(w.num * 8191, WDen) + 8191 + 8192 * a + 32768 * b

\* variant: amplitude scaled and centred with 2^13 instead of 2^13 - 1
SampleSumScale8192(w, a, b) ==
    RoundHalfEven(w.num * 8192, WDen) + 8192 + 16384 * a + 32768 * b

\* the float sum of line 1314-1316 for one finite sample
SampleSum(w, a, b) ==
    RoundHalfEven(w.num * 8191, WDen) + 8191 + 16384 * a + 32768 * b

\* np.uint16(x) for the sum of one position: the set of possible results
CastUint16(w, a, b) ==
    IF w.nan THEN UndefCast
    ELSE LET x == SampleSum(w, a, b)
         IN  IF 0 <= x /\ x <= 65535 THEN {x}
             ELSE UndefCast \cup {x % 65536}

RECURSIVE PackedArrays(_, _, _, _)
\* all arrays the element-wise conversion can produce for positions 1..n
PackedArrays(w, a, b, n) ==
    IF n = 0 THEN {<<>>}
    ELSE {Append(p, x) : p \in PackedArrays(w, a, b, n - 1),
                         x \in CastUint16(w[n], a[n], b[n])}

Raise(e) == [raised |-> e, value |-> <<>>]
Return(v) == [raised |-> "none", value |-> v]

\* variant: the length comparison made after the checks of the values
PackValidationLengthLast(w, a, b) ==
    IF Len(w) = 0
        THEN "ValueError: min() arg is an empty sequence"
    ELSE IF FloatLtInt(PyMin(w), -1) \/ FloatGtInt(PyMax(w), 1)
        THEN "TypeError: Waveform values out of bonds"
    ELSE IF Count(a, 0) + Count(a, 1) # Len(a)
        THEN "TypeError: Marker 1 contains invalid values"
    ELSE IF Count(b, 0) + Count(b, 1) # Len(b)
        THEN "TypeError: Marker 2 contains invalid values"
    ELSE IF ~(Len(w) = Len(a) /\ Len(a) = Len(b))
        THEN "Exception: sizes of the waveforms do not match"
    ELSE "none"

\* the input validation of pack_waveform, in the order of the code: the name
\* of the exception raised, or "none"
PackValidation(w, a, b) ==
    IF ~(Len(w) = Len(a) /\ Len(a) = Len(b))
        THEN "Exception: sizes of the waveforms do not match"
    ELSE IF Len(w) = 0
        THEN "ValueError: min() arg is an empty sequence"
    ELSE IF FloatLtInt(PyMin(w), -1) \/ FloatGtInt(PyMax(w), 1)
        THEN "TypeError: Waveform values out of bonds"
    ELSE IF Count(a, 0) + Count(a, 1) # Len(a)
        THEN "TypeError: Marker 1 contains invalid values"
    ELSE IF Count(b, 0) + Count(b, 1) # Len(b)
        THEN "TypeError: Marker 2 contains invalid values"
    ELSE "none"

\* pack_waveform(wf, m1, m2): the set of possible outcomes
pack_waveform(w, a, b) ==
    LET e == PackValidation(w, a, b)
    IN  IF e # "none" THEN {Raise(e)}
        ELSE {Return(p) : p \in PackedArrays(w, a, b, Len(w))}

----------------------------------------------------------------------------
(* Strings, bytes and Python values *)

RECURSIVE Pow(_, _)
Pow(b, e) == IF e = 0 THEN 1 ELSE b * Pow(b, e - 1)

RECURSIVE Concat(_)
\* concatenation of a sequence of sequences
Concat(ss) == IF ss = <<>> THEN <<>> ELSE Head(ss) \o Concat(Tail(ss))

\* Python values: an int, a float (integer-valued, n.0, or a number of
\* nanoseconds), a str (code points), a bytes object, or a tuple / array of
\* ints
PyInt(n) == [ty |-> "int", n |-> n, s |-> <<>>]
PyFloat(n) == [ty |-> "float", n |-> n, s |-> <<>>]
\* the float n * 1e-9
PyNano(n) == [ty |-> "nano", n |-> n, s |-> <<>>]
PyStr(s) == [ty |-> "str", n |-> 0, s |-> s]
PyBytes(s) == [ty |-> "bytes", n |-> 0, s |-> s]
PyTuple(s) == [ty |-> "tuple", n |-> 0, s |-> s]

\* str.encode('ASCII'): every code point below 128 maps to the byte of the
\* same number, any other code point raises UnicodeEncodeError
IsAscii(str) == \A i \in 1..Len(str) : str[i] < 128
EncodeAscii(str) == IF IsAscii(str) THEN Return(str) ELSE Raise("UnicodeEncodeError")

IsDigit(c) == 48 <= c /\ c <= 57

RECURSIVE FormatInt(_)
\* '{}'.format(n) for n >= 0: the decimal digits of n
FormatInt(n) ==
    IF n < 10 THEN <<48 + n>> ELSE Append(FormatInt(n \div 10), 48 + (n % 10))

----------------------------------------------------------------------------
(* struct.pack with the '<' prefix: standard sizes, little-endian *)

\* format characters modelled: x b B h H i I l L q Q d s
\* (120 98 66 104 72 105 73 108 76 113 81 100 115)
IntCodes == {98, 66, 104, 72, 105, 73, 108, 76, 113, 81}
StructCodes == IntCodes \cup {120, 100, 115}
CodeSize(c) ==
    IF c \in {98, 66} THEN 1
    ELSE IF c \in {104, 72} THEN 2
    ELSE IF c \in {105, 73, 108, 76} THEN 4
    ELSE 8
\* signed codes: b h i l q
IsSigned(c) == c \in {98, 104, 105, 108, 113}
\* does the int v fit the code c (all values of the model lie within 32 bits)
InCodeRange(c, v) ==
    IF IsSigned(c)
        THEN CodeSize(c) >= 4
             \/ (-Pow(256, CodeSize(c)) \div 2 <= v /\ v < Pow(256, CodeSize(c)) \div 2)
        ELSE v >= 0 /\ (CodeSize(c) >= 4 \/ v < Pow(256, CodeSize(c)))

\* variant: the bytes of an integer in big-endian order
IntBytesBigEndian(v, size) ==
    [i \in 1..size |->
        IF size - i < 4 THEN (v \div Pow(256, size - i)) % 256
        ELSE IF v < 0 THEN 255 ELSE 0]

\* two's complement little-endian bytes of v in size bytes
IntBytes(v, size) ==
    [i \in 1..size |->
        IF i <= 4 THEN (v \div Pow(256, i - 1)) % 256
        ELSE IF v < 0 THEN 255 ELSE 0]

RECURSIVE Log2Floor(_)
Log2Floor(a) == IF a < 2 THEN 0 ELSE 1 + Log2Floor(a \div 2)

\* IEEE 754 binary64, little-endian, of the integer-valued double n
\* (|n| < 2^31: the fraction has at most 30 significant bits, so its low
\* 16 bits are zero)
DoubleBytes(n) ==
    IF n = 0 THEN <<0, 0, 0, 0, 0, 0, 0, 0>>
    ELSE LET a == IF n < 0 THEN -n ELSE n
             e == Log2Floor(a)
             m == a - Pow(2, e)
             \* the top 20 bits of the 52-bit fraction
             frac == IF e <= 20 THEN m * Pow(2, 20 - e) ELSE m \div Pow(2, e - 20)
             \* bits 16..31 of the low 32 bits of the fraction
             low == IF e <= 20 THEN 0 ELSE (m % Pow(2, e - 20)) * Pow(2, 36 - e)
             bexp == e + 1023
         IN  <<0, 0, low % 256, low \div 256,
               frac % 256,
               (frac \div 256) % 256,
               (bexp % 16) * 16 + (frac \div 65536),
               (IF n < 0 THEN 128 ELSE 0) + (bexp \div 16)>>

\* the double x * 1e-9 of mrkdeltrans for a delay of x ns: 0.0 for x = 0,
\* 1e-9 for x = 1 (other delays are not drawn)
NanoBytes(x) ==
    CASE x = 0 -> <<0, 0, 0, 0, 0, 0, 0, 0>>
      [] x = 1 -> <<149, 214, 38, 232, 11, 46, 17, 62>>

RECURSIVE ParseFormatFrom(_, _, _, _)
\* the items (count, code) of a format string; a count without a code or a
\* character that is no format code makes the format bad
ParseFormatFrom(fmt, i, count, items) ==
    IF i > Len(fmt)
        THEN IF count = -1 THEN [ok |-> TRUE, items |-> items]
             ELSE [ok |-> FALSE, items |-> <<>>]
    ELSE IF fmt[i] = 32 /\ count = -1
        THEN ParseFormatFrom(fmt, i + 1, count, items)
    ELSE IF IsDigit(fmt[i])
        THEN ParseFormatFrom(fmt, i + 1,
                 (IF count = -1 THEN 0 ELSE 10 * count) + (fmt[i] - 48), items)
    ELSE IF fmt[i] \in StructCodes
        THEN ParseFormatFrom(fmt, i + 1, -1,
                 Append(items, [count |-> IF count = -1 THEN 1 ELSE count,
                                code |-> fmt[i]]))
    ELSE [ok |-> FALSE, items |-> <<>>]
ParseFormat(fmt) == ParseFormatFrom(fmt, 1, -1, <<>>)

\* number of arguments an item consumes
ItemArgs(it) ==
    IF it.code = 120 THEN 0 ELSE IF it.code = 115 THEN 1 ELSE it.count

RECURSIVE SumArgs(_)
SumArgs(items) == IF items = <<>> THEN 0 ELSE ItemArgs(Head(items)) + SumArgs(Tail(items))

\* is the argument acceptable for the code
ArgFits(code, arg) ==
    IF code = 115 THEN arg.ty = "bytes"
    ELSE IF code = 100 THEN arg.ty \in {"int", "float", "nano"}
    ELSE arg.ty = "int" /\ InCodeRange(code, arg.n)

\* the bytes of one argument under one code (count is used by 's' only)
ArgBytes(it, arg) ==
    IF it.code = 115
        THEN [i \in 1..it.count |-> IF i <= Len(arg.s) THEN arg.s[i] ELSE 0]
    ELSE IF it.code = 100
        THEN IF arg.ty = "nano" THEN NanoBytes(arg.n) ELSE DoubleBytes(arg.n)
    ELSE IntBytes(arg.n, CodeSize(it.code))

RECURSIVE PackItems(_, _)
\* bytes of the items over the arguments (the counts are known to match)
PackItems(items, args) ==
    IF items = <<>> THEN Return(<<>>)
    ELSE LET it == Head(items)
             k == ItemArgs(it)
         IN  IF it.code = 120
                 THEN LET rest == PackItems(Tail(items), args)
                      IN  IF rest.raised # "none" THEN rest
                          ELSE Return([i \in 1..it.count |-> 0] \o rest.value)
             ELSE IF \E j \in 1..k : ~ArgFits(it.code, args[j])
                 THEN Raise("struct.error")
             ELSE LET rest == PackItems(Tail(items), SubSeq(args, k + 1, Len(args)))
                      here == IF it.code = 115 THEN ArgBytes(it, args[1])
                              ELSE Concat([j \in 1..k |-> ArgBytes(it, args[j])])
                  IN  IF rest.raised # "none" THEN rest
                      ELSE Return(here \o rest.value)

\* struct.pack('<' + fmt, *args)
StructPack(fmt, args) ==
    LET p == ParseFormat(fmt)
    IN  IF ~p.ok THEN Raise("struct.error")
        ELSE IF SumArgs(p.items) # Len(args) THEN Raise("struct.error")
        ELSE PackItems(p.items, args)

----------------------------------------------------------------------------
(* _pack_record *)

\* the arguments *value unpacks to: the items of a tuple or array, the bytes
\* of a bytes object (ints), the characters of a str (strs of length one)
Unpacked(val) ==
    IF val.ty = "str" THEN [i \in 1..Len(val.s) |-> PyStr(<<val.s[i]>>)]
    ELSE [i \in 1..Len(val.s) |-> PyInt(val.s[i])]

\* record_data of lines 802-808
RecordData(val, tag) ==
    IF Len(tag) = 1 THEN StructPack(tag, <<val>>)
    ELSE IF Len(tag) = 0 THEN Raise("IndexError")
    ELSE IF tag[Len(tag)] = 115
        THEN IF val.ty = "str" THEN EncodeAscii(val.s)
             ELSE Raise("AttributeError")
    ELSE IF val.ty \in {"int", "float", "nano"} THEN Raise("TypeError")
    ELSE StructPack(tag, Unpacked(val))

\* variant: the name size written without counting the terminating NUL
RecordFrameNoNul(record_name, record_data) ==
    LET size_struct == StructPack(<<73, 73>>,
            <<PyInt(Len(record_name) - 1), PyInt(Len(record_data))>>)
    IN  size_struct.value \o record_name \o record_data

\* lines 812-815: the size prefix, the name and the data
RecordFrame(record_name, record_data) ==
    LET size_struct == StructPack(<<73, 73>>,
            <<PyInt(Len(record_name)), PyInt(Len(record_data))>>)
    IN  size_struct.value \o record_name \o record_data

\* _pack_record(name, value, dtype)
_pack_record(nm, val, tag) ==
    LET record_data == RecordData(val, tag)
        encoded == EncodeAscii(nm)
    IN  IF record_data.raised # "none" THEN record_data
        ELSE IF encoded.raised # "none" THEN encoded
        ELSE Return(RecordFrame(encoded.value \o <<0>>, record_data.value))

----------------------------------------------------------------------------
(* Dictionaries: a dict is the sequence of its items [k, v] in insertion
   order, with pairwise different keys *)

DictHas(d, key) == \E i \in 1..Len(d) : d[i].k = key
DictGet(d, key) == d[CHOOSE i \in 1..Len(d) : d[i].k = key].v
DictKeys(d) == [i \in 1..Len(d) |-> d[i].k]
\* d.update({key: val})
DictUpdate(d, key, val) ==
    IF DictHas(d, key)
        THEN [i \in 1..Len(d) |-> IF d[i].k = key THEN [k |-> key, v |-> val] ELSE d[i]]
        ELSE Append(d, [k |-> key, v |-> val])

\* Python's None where a number, a str or dict, or a cached reply may stand
\* (the field x of None is a filler of the type of the values), and a value
\* that is not None
None == [none |-> TRUE, x |-> PyInt(0)]
NoneSeq == [none |-> TRUE, x |-> <<>>]
NoneReply == [none |-> TRUE, x |-> ""]
Some(x) == [none |-> FALSE, x |-> x]

\* does the str begin with the prefix (str.startswith)
StartsWith(str, prefix) ==
    Len(str) >= Len(prefix) /\ SubSeq(str, 1, Len(prefix)) = prefix

RECURSIVE StrLess(_, _)
\* a < b on strs: lexicographic by code point (the order list.sort uses)
StrLess(a, b) ==
    IF b = <<>> THEN FALSE
    ELSE IF a = <<>> THEN TRUE
    ELSE IF Head(a) # Head(b) THEN Head(a) < Head(b)
    ELSE StrLess(Tail(a), Tail(b))

----------------------------------------------------------------------------
(* The whitelists of record names *)

\* AWG_FILE_FORMAT_HEAD (lines 42-70): record name -> type tag

AWG_FILE_FORMAT_HEAD ==
    <<
      \* SAMPLING_RATE: 'd'
      [k |-> <<83, 65, 77, 80, 76, 73, 78, 71, 95, 82, 65, 84, 69>>,
       v |-> <<100>>],
      \* REPETITION_RATE: 'd'
      [k |-> <<82, 69, 80, 69, 84, 73, 84, 73, 79, 78, 95, 82, 65, 84, 69>>,
       v |-> <<100>>],
      \* HOLD_REPETITION_RATE: 'h'
      [k |-> <<72, 79, 76, 68, 95, 82, 69, 80, 69, 84, 73, 84, 73, 79, 78, 95, 82, 65, 84, 69>>,
       v |-> <<104>>],
      \* CLOCK_SOURCE: 'h'
      [k |-> <<67, 76, 79, 67, 75, 95, 83, 79, 85, 82, 67, 69>>,
       v |-> <<104>>],
      \* REFERENCE_SOURCE: 'h'
      [k |-> <<82, 69, 70, 69, 82, 69, 78, 67, 69, 95, 83, 79, 85, 82, 67, 69>>,
       v |-> <<104>>],
      \* EXTERNAL_REFERENCE_TYPE: 'h'
      [k |-> <<69, 88, 84, 69, 82, 78, 65, 76, 95, 82, 69, 70, 69, 82, 69, 78, 67, 69, 95, 84, 89, 80, 69>>,
       v |-> <<104>>],
      \* REFERENCE_CLOCK_FREQUENCY_SELECTION: 'h'
      [k |-> <<82, 69, 70, 69, 82, 69, 78, 67, 69, 95, 67, 76, 79, 67, 75, 95, 70, 82, 69, 81, 85, 69, 78, 67, 89, 95, 83, 69, 76, 69, 67, 84, 73, 79, 78>>,
       v |-> <<104>>],
      \* REFERENCE_MULTIPLIER_RATE: 'h'
      [k |-> <<82, 69, 70, 69, 82, 69, 78, 67, 69, 95, 77, 85, 76, 84, 73, 80, 76, 73, 69, 82, 95, 82, 65, 84, 69>>,
       v |-> <<104>>],
      \* DIVIDER_RATE: 'h'
      [k |-> <<68, 73, 86, 73, 68, 69, 82, 95, 82, 65, 84, 69>>,
       v |-> <<104>>],
      \* TRIGGER_SOURCE: 'h'
      [k |-> <<84, 82, 73, 71, 71, 69, 82, 95, 83, 79, 85, 82, 67, 69>>,
       v |-> <<104>>],
      \* INTERNAL_TRIGGER_RATE: 'd'
      [k |-> <<73, 78, 84, 69, 82, 78, 65, 76, 95, 84, 82, 73, 71, 71, 69, 82, 95, 82, 65, 84, 69>>,
       v |-> <<100>>],
      \* TRIGGER_INPUT_IMPEDANCE: 'h'
      [k |-> <<84, 82, 73, 71, 71, 69, 82, 95, 73, 78, 80, 85, 84, 95, 73, 77, 80, 69, 68, 65, 78, 67, 69>>,
       v |-> <<104>>],
      \* TRIGGER_INPUT_SLOPE: 'h'
      [k |-> <<84, 82, 73, 71, 71, 69, 82, 95, 73, 78, 80, 85, 84, 95, 83, 76, 79, 80, 69>>,
       v |-> <<104>>],
      \* TRIGGER_INPUT_POLARITY: 'h'
      [k |-> <<84, 82, 73, 71, 71, 69, 82, 95, 73, 78, 80, 85, 84, 95, 80, 79, 76, 65, 82, 73, 84, 89>>,
       v |-> <<104>>],
      \* TRIGGER_INPUT_THRESHOLD: 'd'
      [k |-> <<84, 82, 73, 71, 71, 69, 82, 95, 73, 78, 80, 85, 84, 95, 84, 72, 82, 69, 83, 72, 79, 76, 68>>,
       v |-> <<100>>],
      \* EVENT_INPUT_IMPEDANCE: 'h'
      [k |-> <<69, 86, 69, 78, 84, 95, 73, 78, 80, 85, 84, 95, 73, 77, 80, 69, 68, 65, 78, 67, 69>>,
       v |-> <<104>>],
      \* EVENT_INPUT_POLARITY: 'h'
      [k |-> <<69, 86, 69, 78, 84, 95, 73, 78, 80, 85, 84, 95, 80, 79, 76, 65, 82, 73, 84, 89>>,
       v |-> <<104>>],
      \* EVENT_INPUT_THRESHOLD: 'd'
      [k |-> <<69, 86, 69, 78, 84, 95, 73, 78, 80, 85, 84, 95, 84, 72, 82, 69, 83, 72, 79, 76, 68>>,
       v |-> <<100>>],
      \* JUMP_TIMING: 'h'
      [k |-> <<74, 85, 77, 80, 95, 84, 73, 77, 73, 78, 71>>,
       v |-> <<104>>],
      \* INTERLEAVE: 'h'
      [k |-> <<73, 78, 84, 69, 82, 76, 69, 65, 86, 69>>,
       v |-> <<104>>],
      \* ZEROING: 'h'
      [k |-> <<90, 69, 82, 79, 73, 78, 71>>,
       v |-> <<104>>],
      \* COUPLING: 'h'
      [k |-> <<67, 79, 85, 80, 76, 73, 78, 71>>,
       v |-> <<104>>],
      \* RUN_MODE: 'h'
      [k |-> <<82, 85, 78, 95, 77, 79, 68, 69>>,
       v |-> <<104>>],
      \* WAIT_VALUE: 'h'
      [k |-> <<87, 65, 73, 84, 95, 86, 65, 76, 85, 69>>,
       v |-> <<104>>],
      \* RUN_STATE: 'h'
      [k |-> <<82, 85, 78, 95, 83, 84, 65, 84, 69>>,
       v |-> <<104>>],
      \* INTERLEAVE_ADJ_PHASE: 'd'
      [k |-> <<73, 78, 84, 69, 82, 76, 69, 65, 86, 69, 95, 65, 68, 74, 95, 80, 72, 65, 83, 69>>,
       v |-> <<100>>],
      \* INTERLEAVE_ADJ_AMPLITUDE: 'd'
      [k |-> <<73, 78, 84, 69, 82, 76, 69, 65, 86, 69, 95, 65, 68, 74, 95, 65, 77, 80, 76, 73, 84, 85, 68, 69>>,
       v |-> <<100>>]
    >>

\* AWG_FILE_FORMAT_CHANNEL (lines 71-124): record name -> type tag

AWG_FILE_FORMAT_CHANNEL ==
    <<
      \* OUTPUT_WAVEFORM_NAME_N: 's'
      [k |-> <<79, 85, 84, 80, 85, 84, 95, 87, 65, 86, 69, 70, 79, 82, 77, 95, 78, 65, 77, 69, 95, 78>>,
       v |-> <<115>>],
      \* CHANNEL_STATE_N: 'h'
      [k |-> <<67, 72, 65, 78, 78, 69, 76, 95, 83, 84, 65, 84, 69, 95, 78>>,
       v |-> <<104>>],
      \* ANALOG_DIRECT_OUTPUT_N: 'h'
      [k |-> <<65, 78, 65, 76, 79, 71, 95, 68, 73, 82, 69, 67, 84, 95, 79, 85, 84, 80, 85, 84, 95, 78>>,
       v |-> <<104>>],
      \* ANALOG_FILTER_N: 'h'
      [k |-> <<65, 78, 65, 76, 79, 71, 95, 70, 73, 76, 84, 69, 82, 95, 78>>,
       v |-> <<104>>],
      \* ANALOG_METHOD_N: 'h'
      [k |-> <<65, 78, 65, 76, 79, 71, 95, 77, 69, 84, 72, 79, 68, 95, 78>>,
       v |-> <<104>>],
      \* ANALOG_AMPLITUDE_N: 'd'
      [k |-> <<65, 78, 65, 76, 79, 71, 95, 65, 77, 80, 76, 73, 84, 85, 68, 69, 95, 78>>,
       v |-> <<100>>],
      \* ANALOG_OFFSET_N: 'd'
      [k |-> <<65, 78, 65, 76, 79, 71, 95, 79, 70, 70, 83, 69, 84, 95, 78>>,
       v |-> <<100>>],
      \* ANALOG_HIGH_N: 'd'
      [k |-> <<65, 78, 65, 76, 79, 71, 95, 72, 73, 71, 72, 95, 78>>,
       v |-> <<100>>],
      \* ANALOG_LOW_N: 'd'
      [k |-> <<65, 78, 65, 76, 79, 71, 95, 76, 79, 87, 95, 78>>,
       v |-> <<100>>],
      \* MARKER1_SKEW_N: 'd'
      [k |-> <<77, 65, 82, 75, 69, 82, 49, 95, 83, 75, 69, 87, 95, 78>>,
       v |-> <<100>>],
      \* MARKER1_METHOD_N: 'h'
      [k |-> <<77, 65, 82, 75, 69, 82, 49, 95, 77, 69, 84, 72, 79, 68, 95, 78>>,
       v |-> <<104>>],
      \* MARKER1_AMPLITUDE_N: 'd'
      [k |-> <<77, 65, 82, 75, 69, 82, 49, 95, 65, 77, 80, 76, 73, 84, 85, 68, 69, 95, 78>>,
       v |-> <<100>>],
      \* MARKER1_OFFSET_N: 'd'
      [k |-> <<77, 65, 82, 75, 69, 82, 49, 95, 79, 70, 70, 83, 69, 84, 95, 78>>,
       v |-> <<100>>],
      \* MARKER1_HIGH_N: 'd'
      [k |-> <<77, 65, 82, 75, 69, 82, 49, 95, 72, 73, 71, 72, 95, 78>>,
       v |-> <<100>>],
      \* MARKER1_LOW_N: 'd'
      [k |-> <<77, 65, 82, 75, 69, 82, 49, 95, 76, 79, 87, 95, 78>>,
       v |-> <<100>>],
      \* MARKER2_SKEW_N: 'd'
      [k |-> <<77, 65, 82, 75, 69, 82, 50, 95, 83, 75, 69, 87, 95, 78>>,
       v |-> <<100>>],
      \* MARKER2_METHOD_N: 'h'
      [k |-> <<77, 65, 82, 75, 69, 82, 50, 95, 77, 69, 84, 72, 79, 68, 95, 78>>,
       v |-> <<104>>],
      \* MARKER2_AMPLITUDE_N: 'd'
      [k |-> <<77, 65, 82, 75, 69, 82, 50, 95, 65, 77, 80, 76, 73, 84, 85, 68, 69, 95, 78>>,
       v |-> <<100>>],
      \* MARKER2_OFFSET_N: 'd'
      [k |-> <<77, 65, 82, 75, 69, 82, 50, 95, 79, 70, 70, 83, 69, 84, 95, 78>>,
       v |-> <<100>>],
      \* MARKER2_HIGH_N: 'd'
      [k |-> <<77, 65, 82, 75, 69, 82, 50, 95, 72, 73, 71, 72, 95, 78>>,
       v |-> <<100>>],
      \* MARKER2_LOW_N: 'd'
      [k |-> <<77, 65, 82, 75, 69, 82, 50, 95, 76, 79, 87, 95, 78>>,
       v |-> <<100>>],
      \* DIGITAL_METHOD_N: 'h'
      [k |-> <<68, 73, 71, 73, 84, 65, 76, 95, 77, 69, 84, 72, 79, 68, 95, 78>>,
       v |-> <<104>>],
      \* DIGITAL_AMPLITUDE_N: 'd'
      [k |-> <<68, 73, 71, 73, 84, 65, 76, 95, 65, 77, 80, 76, 73, 84, 85, 68, 69, 95, 78>>,
       v |-> <<100>>],
      \* DIGITAL_OFFSET_N: 'd'
      [k |-> <<68, 73, 71, 73, 84, 65, 76, 95, 79, 70, 70, 83, 69, 84, 95, 78>>,
       v |-> <<100>>],
      \* DIGITAL_HIGH_N: 'd'
      [k |-> <<68, 73, 71, 73, 84, 65, 76, 95, 72, 73, 71, 72, 95, 78>>,
       v |-> <<100>>],
      \* DIGITAL_LOW_N: 'd'
      [k |-> <<68, 73, 71, 73, 84, 65, 76, 95, 76, 79, 87, 95, 78>>,
       v |-> <<100>>],
      \* EXTERNAL_ADD_N: 'h'
      [k |-> <<69, 88, 84, 69, 82, 78, 65, 76, 95, 65, 68, 68, 95, 78>>,
       v |-> <<104>>],
      \* PHASE_DELAY_INPUT_METHOD_N: 'h'
      [k |-> <<80, 72, 65, 83, 69, 95, 68, 69, 76, 65, 89, 95, 73, 78, 80, 85, 84, 95, 77, 69, 84, 72, 79, 68, 95, 78>>,
       v |-> <<104>>],
      \* PHASE_N: 'd'
      [k |-> <<80, 72, 65, 83, 69, 95, 78>>,
       v |-> <<100>>],
      \* DELAY_IN_TIME_N: 'd'
      [k |-> <<68, 69, 76, 65, 89, 95, 73, 78, 95, 84, 73, 77, 69, 95, 78>>,
       v |-> <<100>>],
      \* DELAY_IN_POINTS_N: 'd'
      [k |-> <<68, 69, 76, 65, 89, 95, 73, 78, 95, 80, 79, 73, 78, 84, 83, 95, 78>>,
       v |-> <<100>>],
      \* CHANNEL_SKEW_N: 'd'
      [k |-> <<67, 72, 65, 78, 78, 69, 76, 95, 83, 75, 69, 87, 95, 78>>,
       v |-> <<100>>],
      \* DC_OUTPUT_LEVEL_N: 'd'
      [k |-> <<68, 67, 95, 79, 85, 84, 80, 85, 84, 95, 76, 69, 86, 69, 76, 95, 78>>,
       v |-> <<100>>]
    >>

----------------------------------------------------------------------------
(* Record names written by the configuration generators *)

S_SAMPLING_RATE == <<83, 65, 77, 80, 76, 73, 78, 71, 95, 82, 65, 84, 69>>  \* 'SAMPLING_RATE'
S_CLOCK_SOURCE == <<67, 76, 79, 67, 75, 95, 83, 79, 85, 82, 67, 69>>  \* 'CLOCK_SOURCE'
S_REFERENCE_SOURCE == <<82, 69, 70, 69, 82, 69, 78, 67, 69, 95, 83, 79, 85, 82, 67, 69>>  \* 'REFERENCE_SOURCE'
S_EXTERNAL_REFERENCE_TYPE == <<69, 88, 84, 69, 82, 78, 65, 76, 95, 82, 69, 70, 69, 82, 69, 78, 67, 69, 95, 84, 89, 80, 69>>  \* 'EXTERNAL_REFERENCE_TYPE'
S_REFERENCE_CLOCK_FREQUENCY_SELECTION == <<82, 69, 70, 69, 82, 69, 78, 67, 69, 95, 67, 76, 79, 67, 75, 95, 70, 82, 69, 81, 85, 69, 78, 67, 89, 95, 83, 69, 76, 69, 67, 84, 73, 79, 78>>  \* 'REFERENCE_CLOCK_FREQUENCY_SELECTION'
S_TRIGGER_SOURCE == <<84, 82, 73, 71, 71, 69, 82, 95, 83, 79, 85, 82, 67, 69>>  \* 'TRIGGER_SOURCE'
S_TRIGGER_INPUT_IMPEDANCE == <<84, 82, 73, 71, 71, 69, 82, 95, 73, 78, 80, 85, 84, 95, 73, 77, 80, 69, 68, 65, 78, 67, 69>>  \* 'TRIGGER_INPUT_IMPEDANCE'
S_TRIGGER_INPUT_SLOPE == <<84, 82, 73, 71, 71, 69, 82, 95, 73, 78, 80, 85, 84, 95, 83, 76, 79, 80, 69>>  \* 'TRIGGER_INPUT_SLOPE'
S_TRIGGER_INPUT_POLARITY == <<84, 82, 73, 71, 71, 69, 82, 95, 73, 78, 80, 85, 84, 95, 80, 79, 76, 65, 82, 73, 84, 89>>  \* 'TRIGGER_INPUT_POLARITY'
S_TRIGGER_INPUT_THRESHOLD == <<84, 82, 73, 71, 71, 69, 82, 95, 73, 78, 80, 85, 84, 95, 84, 72, 82, 69, 83, 72, 79, 76, 68>>  \* 'TRIGGER_INPUT_THRESHOLD'
S_EVENT_INPUT_IMPEDANCE == <<69, 86, 69, 78, 84, 95, 73, 78, 80, 85, 84, 95, 73, 77, 80, 69, 68, 65, 78, 67, 69>>  \* 'EVENT_INPUT_IMPEDANCE'
S_EVENT_INPUT_POLARITY == <<69, 86, 69, 78, 84, 95, 73, 78, 80, 85, 84, 95, 80, 79, 76, 65, 82, 73, 84, 89>>  \* 'EVENT_INPUT_POLARITY'
S_EVENT_INPUT_THRESHOLD == <<69, 86, 69, 78, 84, 95, 73, 78, 80, 85, 84, 95, 84, 72, 82, 69, 83, 72, 79, 76, 68>>  \* 'EVENT_INPUT_THRESHOLD'
S_JUMP_TIMING == <<74, 85, 77, 80, 95, 84, 73, 77, 73, 78, 71>>  \* 'JUMP_TIMING'
S_RUN_MODE == <<82, 85, 78, 95, 77, 79, 68, 69>>  \* 'RUN_MODE'
S_RUN_STATE == <<82, 85, 78, 95, 83, 84, 65, 84, 69>>  \* 'RUN_STATE'
S_ANALOG_DIRECT_OUTPUT == <<65, 78, 65, 76, 79, 71, 95, 68, 73, 82, 69, 67, 84, 95, 79, 85, 84, 80, 85, 84, 95>>  \* 'ANALOG_DIRECT_OUTPUT_'
S_ANALOG_FILTER == <<65, 78, 65, 76, 79, 71, 95, 70, 73, 76, 84, 69, 82, 95>>  \* 'ANALOG_FILTER_'
S_ANALOG_AMPLITUDE == <<65, 78, 65, 76, 79, 71, 95, 65, 77, 80, 76, 73, 84, 85, 68, 69, 95>>  \* 'ANALOG_AMPLITUDE_'
S_ANALOG_OFFSET == <<65, 78, 65, 76, 79, 71, 95, 79, 70, 70, 83, 69, 84, 95>>  \* 'ANALOG_OFFSET_'
S_MARKER1_HIGH == <<77, 65, 82, 75, 69, 82, 49, 95, 72, 73, 71, 72, 95>>  \* 'MARKER1_HIGH_'
S_MARKER1_LOW == <<77, 65, 82, 75, 69, 82, 49, 95, 76, 79, 87, 95>>  \* 'MARKER1_LOW_'
S_MARKER2_HIGH == <<77, 65, 82, 75, 69, 82, 50, 95, 72, 73, 71, 72, 95>>  \* 'MARKER2_HIGH_'
S_MARKER2_LOW == <<77, 65, 82, 75, 69, 82, 50, 95, 76, 79, 87, 95>>  \* 'MARKER2_LOW_'
S_MARKER1_SKEW == <<77, 65, 82, 75, 69, 82, 49, 95, 83, 75, 69, 87, 95>>  \* 'MARKER1_SKEW_'
S_MARKER2_SKEW == <<77, 65, 82, 75, 69, 82, 50, 95, 83, 75, 69, 87, 95>>  \* 'MARKER2_SKEW_'
S_EXTERNAL_ADD == <<69, 88, 84, 69, 82, 78, 65, 76, 95, 65, 68, 68, 95>>  \* 'EXTERNAL_ADD_'

----------------------------------------------------------------------------
(* generate_sequence_cfg: queries the instrument for the head settings *)

\* the queries sent, in the order of the dict literal (lines 827-859)
SequenceCfgQueries ==
    <<"SOURce:FREQuency?", "AWGControl:CLOCk:SOURce?",
      "SOURce1:ROSCillator:SOURce?", "TRIGger:SOURce?", "TRIGger:IMPedance?",
      "TRIGger:SLOPe?", "TRIGger:POLarity?", "TRIGger:LEVel?",
      "EVENt:IMPedance?", "EVENt:POL?", "EVENt:LEVel?", "EVENt:JTIMing?">>

\* 1 if the reply begins with the prefix, else 2
OneIfStarts(reply, prefix) == PyInt(IF StartsWith(reply, prefix) THEN 1 ELSE 2)
\* 1 if the parsed number equals 50., else 2
OneIfFifty(x) == PyInt(IF x = 50 THEN 1 ELSE 2)

\* the dict returned for an instrument in state ins (a record of replies:
\* strs for the enumerated settings, parsed numbers for the float settings)
generate_sequence_cfg(ins) ==
    <<[k |-> S_SAMPLING_RATE, v |-> PyFloat(ins.clock_freq)],
      [k |-> S_CLOCK_SOURCE, v |-> OneIfStarts(ins.clock_source, <<73, 78, 84>>)],
      [k |-> S_REFERENCE_SOURCE, v |-> OneIfStarts(ins.roscillator_source, <<73, 78, 84>>)],
      [k |-> S_EXTERNAL_REFERENCE_TYPE, v |-> PyInt(1)],
      [k |-> S_REFERENCE_CLOCK_FREQUENCY_SELECTION, v |-> PyInt(1)],
      [k |-> S_TRIGGER_SOURCE, v |-> PyInt(IF StartsWith(ins.trigger_source, <<69, 88, 84>>) THEN 1 ELSE 2)],
      [k |-> S_TRIGGER_INPUT_IMPEDANCE, v |-> OneIfFifty(ins.trigger_impedance)],
      [k |-> S_TRIGGER_INPUT_SLOPE, v |-> OneIfStarts(ins.trigger_slope, <<80, 79, 83>>)],
      [k |-> S_TRIGGER_INPUT_POLARITY, v |-> OneIfStarts(ins.trigger_polarity, <<80, 79, 83>>)],
      [k |-> S_TRIGGER_INPUT_THRESHOLD, v |-> PyFloat(ins.trigger_level)],
      [k |-> S_EVENT_INPUT_IMPEDANCE, v |-> OneIfFifty(ins.event_impedance)],
      [k |-> S_EVENT_INPUT_POLARITY, v |-> OneIfStarts(ins.event_polarity, <<80, 79, 83>>)],
      [k |-> S_EVENT_INPUT_THRESHOLD, v |-> PyFloat(ins.event_level)],
      [k |-> S_JUMP_TIMING, v |-> OneIfStarts(ins.event_jump_timing, <<83, 89, 78, 67>>)],
      [k |-> S_RUN_MODE, v |-> PyInt(4)],
      [k |-> S_RUN_STATE, v |-> PyInt(0)]>>

----------------------------------------------------------------------------
(* generate_channel_cfg: the channel settings held in the parameter cache *)

\* filtertrans (line 886): latest value of chN_filter -> record value
FilterKnown(x) == x \in {"20e6", "100e6", "9.9e37", "INF", "INFinity"}
filtertrans(x) ==
    CASE x = "20e6" -> PyInt(1)
      [] x = "100e6" -> PyInt(3)
      [] x \in {"9.9e37", "INF", "INFinity"} -> PyInt(10)

\* addinptrans (line 925)
AddInputKnown(x) == x \in {"\"ESIG\"", "\"\""}
addinptrans(x) == IF x = "\"ESIG\"" THEN PyInt(1) ELSE PyInt(0)

\* mrkdeltrans (lines 933-937): a delay in ns -> seconds
mrkdeltrans(x) == PyNano(x.n)

\* the settings of one channel in the order of lines 950-982: the record
\* name prefix, the cached value (None: not set) and its translation
ChannelFamilies(cache, chan) ==
    <<[nm |-> S_ANALOG_DIRECT_OUTPUT, c |-> cache.direct_output[chan],
       v |-> PyInt(cache.direct_output[chan].x.n)],
      [nm |-> S_ANALOG_FILTER, c |-> cache.filter[chan],
       v |-> IF cache.filter[chan].none THEN PyInt(0) ELSE filtertrans(cache.filter[chan].x)],
      [nm |-> S_ANALOG_AMPLITUDE, c |-> cache.amp[chan], v |-> cache.amp[chan].x],
      [nm |-> S_ANALOG_OFFSET, c |-> cache.offset[chan], v |-> cache.offset[chan].x],
      [nm |-> S_MARKER1_HIGH, c |-> cache.m1_high[chan], v |-> cache.m1_high[chan].x],
      [nm |-> S_MARKER1_LOW, c |-> cache.m1_low[chan], v |-> cache.m1_low[chan].x],
      [nm |-> S_MARKER2_HIGH, c |-> cache.m2_high[chan], v |-> cache.m2_high[chan].x],
      [nm |-> S_MARKER2_LOW, c |-> cache.m2_low[chan], v |-> cache.m2_low[chan].x],
      [nm |-> S_MARKER1_SKEW, c |-> cache.m1_del[chan], v |-> mrkdeltrans(cache.m1_del[chan].x)],
      [nm |-> S_MARKER2_SKEW, c |-> cache.m2_del[chan], v |-> mrkdeltrans(cache.m2_del[chan].x)],
      [nm |-> S_EXTERNAL_ADD, c |-> cache.add_input[chan],
       v |-> IF cache.add_input[chan].none THEN PyInt(0) ELSE addinptrans(cache.add_input[chan].x)]>>

\* the items of AWG_channel_cfg in the order they are added
ChannelCfgItems(cache) ==
    LET OfChan(chan) ==
            LET fam == ChannelFamilies(cache, chan)
            IN  Concat([i \in 1..Len(fam) |->
                    IF fam[i].c.none THEN <<>>
                    ELSE <<[k |-> fam[i].nm \o FormatInt(chan), v |-> fam[i].v]>>])
    IN  Concat([chan \in 1..4 |-> OfChan(chan)])

\* generate_channel_cfg(): the dict, or KeyError when a cached filter or
\* add-input value is no key of its translation table
generate_channel_cfg(cache) ==
    IF \/ \E chan \in 1..4 : ~cache.filter[chan].none /\ ~FilterKnown(cache.filter[chan].x)
       \/ \E chan \in 1..4 : ~cache.add_input[chan].none /\ ~AddInputKnown(cache.add_input[chan].x)
        THEN Raise("KeyError")
        ELSE Return(ChannelCfgItems(cache))

----------------------------------------------------------------------------
(* generate_awg_file *)

S_MAGIC == <<77, 65, 71, 73, 67>>  \* 'MAGIC'
S_VERSION == <<86, 69, 82, 83, 73, 79, 78>>  \* 'VERSION'
S_WAVEFORM_NAME == <<87, 65, 86, 69, 70, 79, 82, 77, 95, 78, 65, 77, 69, 95>>  \* 'WAVEFORM_NAME_'
S_WAVEFORM_TYPE == <<87, 65, 86, 69, 70, 79, 82, 77, 95, 84, 89, 80, 69, 95>>  \* 'WAVEFORM_TYPE_'
S_WAVEFORM_LENGTH == <<87, 65, 86, 69, 70, 79, 82, 77, 95, 76, 69, 78, 71, 84, 72, 95>>  \* 'WAVEFORM_LENGTH_'
S_WAVEFORM_TIMESTAMP == <<87, 65, 86, 69, 70, 79, 82, 77, 95, 84, 73, 77, 69, 83, 84, 65, 77, 80, 95>>  \* 'WAVEFORM_TIMESTAMP_'
S_WAVEFORM_DATA == <<87, 65, 86, 69, 70, 79, 82, 77, 95, 68, 65, 84, 65, 95>>  \* 'WAVEFORM_DATA_'
S_SEQUENCE_WAIT == <<83, 69, 81, 85, 69, 78, 67, 69, 95, 87, 65, 73, 84, 95>>  \* 'SEQUENCE_WAIT_'
S_SEQUENCE_LOOP == <<83, 69, 81, 85, 69, 78, 67, 69, 95, 76, 79, 79, 80, 95>>  \* 'SEQUENCE_LOOP_'
S_SEQUENCE_JUMP == <<83, 69, 81, 85, 69, 78, 67, 69, 95, 74, 85, 77, 80, 95>>  \* 'SEQUENCE_JUMP_'
S_SEQUENCE_GOTO == <<83, 69, 81, 85, 69, 78, 67, 69, 95, 71, 79, 84, 79, 95>>  \* 'SEQUENCE_GOTO_'
S_SEQUENCE_WAVEFORM_NAME_CH == <<83, 69, 81, 85, 69, 78, 67, 69, 95, 87, 65, 86, 69, 70, 79, 82, 77, 95, 78, 65, 77, 69, 95, 67, 72, 95>>  \* 'SEQUENCE_WAVEFORM_NAME_CH_'

\* one call of _pack_record to be made, or an exception raised while its
\* arguments are evaluated
Req(nm, val, tag) == [err |-> "none", nm |-> nm, val |-> val, tag |-> tag]
ReqError(e) == [err |-> e, nm |-> <<>>, val |-> PyInt(0), tag |-> <<>>]

\* the record of one request
PackOne(req) ==
    IF req.err # "none" THEN Raise(req.err)
    ELSE _pack_record(req.nm, req.val, req.tag)

RECURSIVE JoinResults(_)
\* the values written one after the other; the first exception ends the
\* evaluation
JoinResults(rs) ==
    IF rs = <<>> THEN Return(<<>>)
    ELSE IF Head(rs).raised # "none" THEN Head(rs)
    ELSE IF \A i \in 1..Len(rs) : rs[i].raised = "none"
        THEN Return(Concat([i \in 1..Len(rs) |-> rs[i].value]))
    ELSE JoinResults(Tail(rs))

\* the records of the requests, packed in order and concatenated
PackAll(reqs) == JoinResults([i \in 1..Len(reqs) |-> PackOne(reqs[i])])

\* lines 1036-1040: channel_cfg after the cached settings it lacks are added
RECURSIVE MergeSettings(_, _)
MergeSettings(cfg, settings) ==
    IF settings = <<>> THEN cfg
    ELSE MergeSettings(
            IF DictHas(cfg, Head(settings).k) THEN cfg
            ELSE DictUpdate(cfg, Head(settings).k, Head(settings).v),
            Tail(settings))

\* line 1042: (year, mon, isdst, mday, hour, min, sec, wday, yday) of the
\* struct_time (year, mon, mday, hour, min, sec, wday, yday, isdst)
Timetuple(lt) == <<lt[1], lt[2], lt[9], lt[3], lt[4], lt[5], lt[6], lt[7], lt[8]>>

\* variant: the head settings written in the order of the whitelist
HeadRequestsWhitelistOrder(scfg) ==
    <<Req(S_MAGIC, PyInt(5000), <<104>>), Req(S_VERSION, PyInt(1), <<104>>)>>
    \o Concat([i \in 1..Len(AWG_FILE_FORMAT_HEAD) |->
          IF DictHas(scfg, AWG_FILE_FORMAT_HEAD[i].k)
              THEN <<Req(AWG_FILE_FORMAT_HEAD[i].k,
                         DictGet(scfg, AWG_FILE_FORMAT_HEAD[i].k),
                         AWG_FILE_FORMAT_HEAD[i].v)>>
              ELSE <<>>])

\* variant: a key that is not whitelisted refused
HeadRequestsStrict(scfg) ==
    <<Req(S_MAGIC, PyInt(5000), <<104>>), Req(S_VERSION, PyInt(1), <<104>>)>>
    \o Concat([i \in 1..Len(scfg) |->
          IF DictHas(AWG_FILE_FORMAT_HEAD, scfg[i].k)
              THEN <<Req(scfg[i].k, scfg[i].v, DictGet(AWG_FILE_FORMAT_HEAD, scfg[i].k))>>
              ELSE <<ReqError("KeyError")>>])

\* variant: VERSION written ahead of MAGIC
HeadRequestsVersionFirst(scfg) ==
    <<Req(S_VERSION, PyInt(1), <<104>>), Req(S_MAGIC, PyInt(5000), <<104>>)>>
    \o Concat([i \in 1..Len(scfg) |->
          IF DictHas(AWG_FILE_FORMAT_HEAD, scfg[i].k)
              THEN <<Req(scfg[i].k, scfg[i].v, DictGet(AWG_FILE_FORMAT_HEAD, scfg[i].k))>>
              ELSE <<>>])

\* lines 1046-1060: MAGIC, VERSION and one record per whitelisted key
HeadRequests(scfg) ==
    <<Req(S_MAGIC, PyInt(5000), <<104>>), Req(S_VERSION, PyInt(1), <<104>>)>>
    \o Concat([i \in 1..Len(scfg) |->
          IF DictHas(AWG_FILE_FORMAT_HEAD, scfg[i].k)
              THEN <<Req(scfg[i].k, scfg[i].v, DictGet(AWG_FILE_FORMAT_HEAD, scfg[i].k))>>
              ELSE <<>>])

\* line 1064: k[:-1] + 'N'
ChannelKey(key) == SubSeq(key, 1, Len(key) - 1) \o <<78>>

\* lines 1063-1070: one record per channel setting whose key is whitelisted
ChannelRequests(ccfg) ==
    Concat([i \in 1..Len(ccfg) |->
        IF DictHas(AWG_FILE_FORMAT_CHANNEL, ChannelKey(ccfg[i].k))
            THEN <<Req(ccfg[i].k, ccfg[i].v,
                       DictGet(AWG_FILE_FORMAT_CHANNEL, ChannelKey(ccfg[i].k)))>>
            ELSE <<>>])

RECURSIVE InsertSorted(_, _)
InsertSorted(sorted, x) ==
    IF sorted = <<>> THEN <<x>>
    ELSE IF StrLess(x, Head(sorted)) THEN <<x>> \o sorted
    ELSE <<Head(sorted)>> \o InsertSorted(Tail(sorted), x)

RECURSIVE SortStrs(_)
\* list.sort() on a list of pairwise different strs
SortStrs(l) == IF l = <<>> THEN <<>> ELSE InsertSorted(SortStrs(Tail(l)), Head(l))

\* variant: the waveforms taken in the iteration order of the dict
WaveformOrderUnsorted(pwfs) == DictKeys(pwfs)

\* lines 1076-1077: the names of the waveforms in the order they are written
WaveformOrder(pwfs) == SortStrs(DictKeys(pwfs))

\* variant: LENGTH holding the number of bytes of the samples
WaveformRecordRequestsLengthInBytes(pwfs, wfn, ii, timetuple) ==
    LET wfdat == DictGet(pwfs, wfn)
        lenwfdat == Len(wfdat)
    IN  <<Req(S_WAVEFORM_NAME \o FormatInt(ii), PyStr(wfn \o <<0>>),
              FormatInt(Len(wfn \o <<0>>)) \o <<115>>),
          Req(S_WAVEFORM_TYPE \o FormatInt(ii), PyInt(1), <<104>>),
          Req(S_WAVEFORM_LENGTH \o FormatInt(ii), PyInt(2 * lenwfdat), <<108>>),
          Req(S_WAVEFORM_TIMESTAMP \o FormatInt(ii),
              PyTuple(SubSeq(timetuple, 1, Len(timetuple) - 1)), <<56, 72>>),
          Req(S_WAVEFORM_DATA \o FormatInt(ii), PyTuple(wfdat),
              FormatInt(lenwfdat) \o <<72>>)>>

\* lines 1082-1091: the five records of the waveform wfn written with index ii
WaveformRecordRequests(pwfs, wfn, ii, timetuple) ==
    LET wfdat == DictGet(pwfs, wfn)
        lenwfdat == Len(wfdat)
    IN  <<Req(S_WAVEFORM_NAME \o FormatInt(ii), PyStr(wfn \o <<0>>),
              FormatInt(Len(wfn \o <<0>>)) \o <<115>>),
          Req(S_WAVEFORM_TYPE \o FormatInt(ii), PyInt(1), <<104>>),
          Req(S_WAVEFORM_LENGTH \o FormatInt(ii), PyInt(lenwfdat), <<108>>),
          Req(S_WAVEFORM_TIMESTAMP \o FormatInt(ii),
              PyTuple(SubSeq(timetuple, 1, Len(timetuple) - 1)), <<56, 72>>),
          Req(S_WAVEFORM_DATA \o FormatInt(ii), PyTuple(wfdat),
              FormatInt(lenwfdat) \o <<72>>)>>

\* variant: every waveform written with the index 21
WaveformRequestsOneIndex(pwfs, timetuple) ==
    LET wlist == WaveformOrder(pwfs)
    IN  Concat([i \in 1..Len(wlist) |->
            WaveformRecordRequests(pwfs, wlist[i], 21, timetuple)])

\* lines 1073-1092: the waveform block, ii counting from 21
WaveformRequests(pwfs, timetuple) ==
    LET wlist == WaveformOrder(pwfs)
    IN  Concat([i \in 1..Len(wlist) |->
            WaveformRecordRequests(pwfs, wlist[i], 20 + i, timetuple)])

\* element i of a list, as an argument of _pack_record
ListItem(l, i) == IF i <= Len(l) THEN PyInt(l[i]) ELSE PyInt(0)

\* variant: the jump target and the goto state written in each other's record
ScalarRequestsJumpGotoSwapped(kk, nreps, waits, gotos, jumps) ==
    <<IF kk <= Len(waits)
          THEN Req(S_SEQUENCE_WAIT \o FormatInt(kk), ListItem(waits, kk), <<104>>)
          ELSE ReqError("IndexError"),
      IF kk <= Len(nreps)
          THEN Req(S_SEQUENCE_LOOP \o FormatInt(kk), ListItem(nreps, kk), <<108>>)
          ELSE ReqError("IndexError"),
      IF kk <= Len(gotos)
          THEN Req(S_SEQUENCE_JUMP \o FormatInt(kk), ListItem(gotos, kk), <<104>>)
          ELSE ReqError("IndexError"),
      IF kk <= Len(jumps)
          THEN Req(S_SEQUENCE_GOTO \o FormatInt(kk), ListItem(jumps, kk), <<104>>)
          ELSE ReqError("IndexError")>>

\* lines 1100-1108: the four scalar records of element kk; an index past the
\* end of a list raises IndexError where the list is read
ScalarRequests(kk, nreps, waits, gotos, jumps) ==
    <<IF kk <= Len(waits)
          THEN Req(S_SEQUENCE_WAIT \o FormatInt(kk), ListItem(waits, kk), <<104>>)
          ELSE ReqError("IndexError"),
      IF kk <= Len(nreps)
          THEN Req(S_SEQUENCE_LOOP \o FormatInt(kk), ListItem(nreps, kk), <<108>>)
          ELSE ReqError("IndexError"),
      IF kk <= Len(jumps)
          THEN Req(S_SEQUENCE_JUMP \o FormatInt(kk), ListItem(jumps, kk), <<104>>)
          ELSE ReqError("IndexError"),
      IF kk <= Len(gotos)
          THEN Req(S_SEQUENCE_GOTO \o FormatInt(kk), ListItem(gotos, kk), <<104>>)
          ELSE ReqError("IndexError")>>

\* variant: a record with an empty name written for an entry that is None
NameRequestsNullForNone(wfname, kk) ==
    IF wfname.none
        THEN <<Req(S_SEQUENCE_WAVEFORM_NAME_CH \o <<48, 95>> \o FormatInt(kk),
                   PyStr(<<0>>), <<49, 115>>)>>
    ELSE IF wfname.x = <<>> THEN <<ReqError("IndexError")>>
    ELSE LET ch == <<wfname.x[Len(wfname.x)]>>
         IN  <<Req(S_SEQUENCE_WAVEFORM_NAME_CH \o ch \o <<95>> \o FormatInt(kk),
                   PyStr(wfname.x \o <<0>>),
                   FormatInt(Len(wfname.x \o <<0>>)) \o <<115>>)>>

\* lines 1109-1118: the name record of one entry of a segment (none for None)
NameRequests(wfname, kk) ==
    IF wfname.none THEN <<>>
    ELSE IF wfname.x = <<>> THEN <<ReqError("IndexError")>>
    ELSE LET ch == <<wfname.x[Len(wfname.x)]>>
         IN  <<Req(S_SEQUENCE_WAVEFORM_NAME_CH \o ch \o <<95>> \o FormatInt(kk),
                   PyStr(wfname.x \o <<0>>),
                   FormatInt(Len(wfname.x \o <<0>>)) \o <<115>>)>>

\* number of segments: the columns of the array of names
NumSegments(names) == IF names = <<>> THEN 0 ELSE Len(names[1])

\* variant: a table without elements refused
SequenceRequestsFailEmpty(names, nreps, waits, gotos, jumps) ==
    IF NumSegments(names) = 0 THEN <<ReqError("IndexError")>>
    ELSE Concat([kk \in 1..NumSegments(names) |->
            ScalarRequests(kk, nreps, waits, gotos, jumps)
            \o Concat([row \in 1..Len(names) |-> NameRequests(names[row][kk], kk)])])

\* lines 1095-1119: the sequence block, kk counting from 1 over the columns
SequenceRequests(names, nreps, waits, gotos, jumps) ==
    Concat([kk \in 1..NumSegments(names) |->
        ScalarRequests(kk, nreps, waits, gotos, jumps)
        \o Concat([row \in 1..Len(names) |-> NameRequests(names[row][kk], kk)])])

\* variant: the waveform block written ahead of the channel settings
AwgFileLayoutWaveformsFirst(head, ch, wfs, seq) == head \o wfs \o ch \o seq

\* lines 1121-1122: the four blocks joined
AwgFileLayout(head, ch, wfs, seq) == head \o ch \o wfs \o seq

\* the records of the four blocks, written in the order of the code
BlockRequests(pwfs, names, nreps, waits, gotos, jumps, cfg, scfg, lt) ==
    <<HeadRequests(scfg), ChannelRequests(cfg),
      WaveformRequests(pwfs, Timetuple(lt)),
      SequenceRequests(names, nreps, waits, gotos, jumps)>>

\* the value returned from the four blocks, or the first exception
FileOf(blocks) ==
    IF \E b \in 1..4 : blocks[b].raised # "none"
        THEN JoinResults(blocks)
        ELSE Return(AwgFileLayout(blocks[1].value, blocks[2].value,
                                  blocks[3].value, blocks[4].value))

\* lines 1044-1123, with the channel settings merged and the head settings
\* chosen
WriteFile(pwfs, names, nreps, waits, gotos, jumps, cfg, scfg, lt, queries) ==
    [awg_file |-> FileOf([b \in 1..4 |->
                     PackAll(BlockRequests(pwfs, names, nreps, waits, gotos,
                                           jumps, cfg, scfg, lt)[b])]),
     channel_cfg |-> cfg, asked |-> queries]

\* lines 1036-1040 then the rest, given the outcome of generate_channel_cfg
MergeAndWrite(pwfs, names, nreps, waits, gotos, jumps, ccfg, scfg, ins, lt, settings) ==
    IF settings.raised # "none"
        THEN [awg_file |-> settings, channel_cfg |-> ccfg, asked |-> <<>>]
    ELSE IF scfg.none
        THEN WriteFile(pwfs, names, nreps, waits, gotos, jumps,
                       MergeSettings(ccfg, settings.value),
                       generate_sequence_cfg(ins), lt, SequenceCfgQueries)
    ELSE WriteFile(pwfs, names, nreps, waits, gotos, jumps,
                   MergeSettings(ccfg, settings.value), scfg.x, lt, <<>>)

\* generate_awg_file: the value returned or the exception raised, the
\* caller's channel_cfg after the call, and the queries sent to the instrument
generate_awg_file(pwfs, names, nreps, waits, gotos, jumps, ccfg, scfg, preserve, cache, ins, lt) ==
    MergeAndWrite(pwfs, names, nreps, waits, gotos, jumps, ccfg, scfg, ins, lt,
                  IF preserve THEN generate_channel_cfg(cache) ELSE Return(<<>>))

----------------------------------------------------------------------------
(* send_awg_file, load_awg_file and make_send_and_load_awg_file *)

\* a message handed to the visa handle by write or by write_raw
Msg(via, data) == [via |-> via, data |-> data]

\* '{:03d}'.format(n): decimal digits, padded with zeros to three characters
Format03d(n) ==
    [i \in 1..(IF Len(FormatInt(n)) >= 3 THEN 0 ELSE 3 - Len(FormatInt(n))) |-> 48]
    \o FormatInt(n)

\* str.replace(old, new) for a single character old
RECURSIVE Replace(_, _, _)
Replace(str, old, new) ==
    IF str = <<>> THEN <<>>
    ELSE (IF Head(str) = old THEN new ELSE <<Head(str)>>) \o Replace(Tail(str), old, new)

S_MMEMORY_DATA == <<77, 77, 69, 77, 111, 114, 121, 58, 68, 65, 84, 65, 32, 34>>  \* 'MMEMory:DATA "'
S_SRESTORE == <<65, 87, 71, 67, 111, 110, 116, 114, 111, 108, 58, 83, 82, 69, 83, 116, 111, 114, 101, 32, 34>>  \* 'AWGControl:SREStore "'
S_CDIRECTORY == <<77, 77, 69, 77, 111, 114, 121, 58, 67, 68, 73, 82, 101, 99, 116, 111, 114, 121, 32, 34, 67, 58, 92, 85, 115, 101, 114, 115, 92, 79, 69, 77, 92, 68, 111, 99, 117, 109, 101, 110, 116, 115, 34>>  \* 'MMEMory:CDIRectory "C:\\Users\\OEM\\Documents"'
S_SEQUENCE_LENGTH == <<83, 69, 81, 117, 101, 110, 99, 101, 58, 76, 69, 78, 71, 116, 104, 32>>  \* 'SEQuence:LENGth '
S_customawgfile == <<99, 117, 115, 116, 111, 109, 97, 119, 103, 102, 105, 108, 101, 46, 97, 119, 103>>  \* 'customawgfile.awg'

\* the header '#' + number of digits of the size + the size
SizeStr(data) == <<35>> \o FormatInt(Len(FormatInt(Len(data)))) \o FormatInt(Len(data))

\* lines 1137-1147, verbose=False: the message written with the file
send_awg_file(fname, file) ==
    <<Msg("write_raw", S_MMEMORY_DATA \o fname \o <<34, 44>> \o SizeStr(file) \o file)>>

\* lines 1158-1162: the restore command, then the sequence length read from
\* the instrument (seqlen) and set again
load_awg_file(fname, seqlen) ==
    <<Msg("write_raw", S_SRESTORE \o fname \o <<34>>),
      Msg("write", S_SEQUENCE_LENGTH \o FormatInt(seqlen))>>

\* line 1236 / 1238: the name of waveform jj (from 1) of the channel chan
UploadName(jj, chan) == <<119, 102, 109>> \o Format03d(jj) \o <<99, 104>> \o FormatInt(chan)

\* the channel number used for row ii (from 1): channels[ii], or the row
ChannelOf(chans, ii) == IF chans.none THEN ii ELSE chans.x[ii]

\* the outcome of pack_waveform for a waveform without nan (then the
\* conversion has one result)
ThePackage(w, a, b) == CHOOSE o \in pack_waveform(w, a, b) : TRUE

\* lines 1234-1242 for one waveform: the item for packed_wfs, or the exception
NamedPackage(ii, jj, chans, package) ==
    IF ~chans.none /\ ii > Len(chans.x) THEN Raise("IndexError")
    ELSE IF package.raised # "none" THEN package
    ELSE Return([k |-> UploadName(jj, ChannelOf(chans, ii)), v |-> package.value])

\* the waveforms in the order of the two loops, each with its outcome
PackedCells(wfs, a, b, chans) ==
    Concat([ii \in 1..Len(wfs) |-> [jj \in 1..Len(wfs[ii]) |->
        NamedPackage(ii, jj, chans, ThePackage(wfs[ii][jj], a[ii][jj], b[ii][jj]))]])

RECURSIVE PackedWfsSkipRejected(_, _)
\* variant: a waveform that pack_waveform rejects is left out
PackedWfsSkipRejected(cells, acc) ==
    IF cells = <<>> THEN Return(acc)
    ELSE IF Head(cells).raised # "none" THEN PackedWfsSkipRejected(Tail(cells), acc)
    ELSE PackedWfsSkipRejected(Tail(cells), DictUpdate(acc, Head(cells).value.k, Head(cells).value.v))

RECURSIVE PackedWfs(_, _)
\* lines 1225-1243: packed_wfs after the loops, or the first exception
PackedWfs(cells, acc) ==
    IF cells = <<>> THEN Return(acc)
    ELSE IF Head(cells).raised # "none" THEN Head(cells)
    ELSE PackedWfs(Tail(cells), DictUpdate(acc, Head(cells).value.k, Head(cells).value.v))

\* line 1245: the array of the names, one row per channel
WaveNameArray(wfs, chans) ==
    [ii \in 1..Len(wfs) |-> [jj \in 1..Len(wfs[ii]) |->
        Some(UploadName(jj, ChannelOf(chans, ii)))]]

\* the reply to 'MMEMory:CDIRectory?': '"\Users\OEM\Documents"' and a newline
CurrentDirReply == <<34, 92, 85, 115, 101, 114, 115, 92, 79, 69, 77, 92, 68, 111, 99, 117, 109, 101, 110, 116, 115, 34>> \o <<10>>

\* lines 1256-1259: the path the file is loaded from
LoadFrom(fname) == Replace(Replace(CurrentDirReply, 34, <<>>), 10, <<92>>) \o fname

\* lines 1253-1261, given the outcome of generate_awg_file
SendAndLoad(fname, out, seqlen) ==
    IF out.awg_file.raised # "none"
        THEN [upload |-> out.awg_file, written |-> <<>>, asked |-> out.asked]
        ELSE [upload |-> Return(<<>>),
              written |-> send_awg_file(fname, out.awg_file.value)
                          \o load_awg_file(LoadFrom(fname), seqlen),
              asked |-> out.asked \o <<"MMEMory:CDIRectory?", "SEQuence:LENGth?">>]

\* lines 1245-1261, given the outcome of the packing loops
MakeFile(pwfs, names, nreps, waits, gotos, jumps, fname, preserve, cache, ins, lt) ==
    IF pwfs.raised # "none"
        THEN [upload |-> pwfs, written |-> <<>>, asked |-> <<>>]
        ELSE SendAndLoad(fname,
                 generate_awg_file(pwfs.value, names, nreps, waits, gotos, jumps,
                                   <<>>, NoneSeq, preserve, cache, ins, lt),
                 NumSegments(names))

\* make_send_and_load_awg_file with waveforms given as a list of lists: the
\* outcome, the messages written and the queries sent
make_send_and_load_awg_file(wfs, a, b, nreps, waits, gotos, jumps, chans, fname, preserve, cache, ins, lt) ==
    IF wfs = <<>>
        THEN [upload |-> Raise("IndexError"),
              written |-> <<Msg("write", S_CDIRECTORY)>>, asked |-> <<>>]
        ELSE LET rest == MakeFile(PackedWfs(PackedCells(wfs, a, b, chans), <<>>),
                                  WaveNameArray(wfs, chans), nreps, waits, gotos,
                                  jumps, fname, preserve, cache, ins, lt)
             IN  [rest EXCEPT !.written = <<Msg("write", S_CDIRECTORY)>> \o @]

----------------------------------------------------------------------------
(* send_waveform_to_list *)

S_WLIST_DEL == <<87, 76, 73, 83, 116, 58, 87, 65, 86, 101, 102, 111, 114, 109, 58, 68, 69, 76, 32, 34>>  \* 'WLISt:WAVeform:DEL "'
S_WLIST_NEW == <<87, 76, 73, 83, 116, 58, 87, 65, 86, 101, 102, 111, 114, 109, 58, 78, 69, 87, 32, 34>>  \* 'WLISt:WAVeform:NEW "'
S_WLIST_DATA == <<87, 76, 73, 83, 116, 58, 87, 65, 86, 101, 102, 111, 114, 109, 58, 68, 65, 84, 65, 32, 34>>  \* 'WLISt:WAVeform:DATA "'
S_INTEGER == <<44, 73, 78, 84, 69, 71, 69, 82>>  \* ',INTEGER'

\* lines 1340-1347 with clock None: the entry kept for a waveform sent
_file_dict(w, a, b) ==
    [w |-> w, m1 |-> a, m2 |-> b, clock_freq |-> None, numpoints |-> Len(w)]

\* lines 1427-1438: the same checks as in pack_waveform, in the same order
ListValidation(w, a, b) == PackValidation(w, a, b)

\* the rational a / b (b > 0) truncated towards zero
TruncDiv(a, b) == IF a >= 0 THEN a \div b ELSE -((-a) \div b)

\* results astype('int') may give for nan (undefined in C; representative
\* outcomes: the most negative integer, and 0)
UndefInt == {-2147483647, 0}

\* lines 1452-1454 for one position: the float sum, truncated by astype('int')
ListNumber(w, a, b) ==
    IF w.nan THEN UndefInt
    ELSE {TruncDiv((8191 + 16384 * a + 32768 * b) * WDen + 8191 * w.num, WDen)}

RECURSIVE ListNumbers(_, _, _, _)
\* all arrays the conversion can produce for positions 1..n
ListNumbers(w, a, b, n) ==
    IF n = 0 THEN {<<>>}
    ELSE {Append(p, x) : p \in ListNumbers(w, a, b, n - 1),
                         x \in ListNumber(w[n], a[n], b[n])}

\* lines 1457-1463: the header of the data message
ListDataHeader(nm, size) ==
    S_WLIST_DATA \o nm \o <<34, 44>> \o <<35>> \o FormatInt(Len(FormatInt(size)))
    \o FormatInt(size)

\* lines 1440-1466 for the integers number: the table of files, the commands
\* written, and OverflowError from array('H', number) when an integer is not
\* an unsigned short (the bytes are in machine order, little-endian here)
ListSend(w, a, b, nm, fls, number) ==
    IF \E i \in 1..Len(number) : number[i] < 0 \/ number[i] > 65535
        THEN [listed |-> Raise("OverflowError"),
              files |-> DictUpdate(fls, nm, _file_dict(w, a, b)),
              written |-> <<Msg("write", S_WLIST_DEL \o nm \o <<34>>),
                            Msg("write", S_WLIST_NEW \o nm \o <<34, 44>>
                                         \o FormatInt(Len(w)) \o S_INTEGER)>>]
        ELSE [listed |-> Return(<<>>),
              files |-> DictUpdate(fls, nm, _file_dict(w, a, b)),
              written |-> <<Msg("write", S_WLIST_DEL \o nm \o <<34>>),
                            Msg("write", S_WLIST_NEW \o nm \o <<34, 44>>
                                         \o FormatInt(Len(w)) \o S_INTEGER),
                            Msg("write_raw", ListDataHeader(nm, 2 * Len(number))
                                \o Concat([i \in 1..Len(number) |->
                                              IntBytes(number[i], 2)]))>>]

\* send_waveform_to_list(w, m1, m2, wfmname) with the table of files fls:
\* the set of possible outcomes
send_waveform_to_list(w, a, b, nm, fls) ==
    IF ListValidation(w, a, b) # "none"
        THEN {[listed |-> Raise(ListValidation(w, a, b)), files |-> fls,
               written |-> <<>>]}
        ELSE {ListSend(w, a, b, nm, fls, number) :
                 number \in ListNumbers(w, a, b, Len(w))}

----------------------------------------------------------------------------
(* The environment of the driver, and the variables of the operations that
   are not under test in a specification *)

\* the parameter cache right after construction: nothing has been set
EmptyCache ==
    [f \in {"direct_output", "filter", "amp", "offset", "m1_high", "m1_low",
            "m2_high", "m2_low", "m1_del", "m2_del", "add_input"} |->
        [chan \in 1..4 |-> IF f \in {"filter", "add_input"} THEN NoneReply ELSE None]]

\* an instrument with internal clock and trigger settings
InstrumentInternal ==
    [clock_freq |-> 1000000000,
     clock_source |-> <<73, 78, 84>>, roscillator_source |-> <<73, 78, 84>>,
     trigger_source |-> <<73, 78, 84>>, trigger_impedance |-> 50,
     trigger_slope |-> <<80, 79, 83>>, trigger_polarity |-> <<80, 79, 83>>,
     trigger_level |-> 1,
     event_impedance |-> 50, event_polarity |-> <<80, 79, 83>>,
     event_level |-> 1, event_jump_timing |-> <<83, 89, 78, 67>>]

\* 2026-11-01 12:30:59, a Sunday, day 305 of the year, no DST
LocalTimeA == <<2026, 11, 1, 12, 30, 59, 6, 305, 0>>

NoResult == [raised |-> "pending", value |-> <<>>]

\* the timeout the driver is constructed with, in ms (timeout=180 s)
DefaultTimeout == 180000

PackIdle == wf = <<>> /\ m1 = <<>> /\ m2 = <<>> /\ packed_wf = NoResult
RecordIdle ==
    name = <<>> /\ value = PyInt(0) /\ dtype = <<>> /\ packed_record = NoResult
FileIdle ==
    /\ packed_waveforms = <<>> /\ wfname_l = <<>>
    /\ nrep = <<>> /\ trig_wait = <<>> /\ goto_state = <<>> /\ jump_to = <<>>
    /\ channel_cfg = <<>> /\ sequence_cfg = NoneSeq
    /\ preservechannelsettings = FALSE
    /\ awg_file = NoResult
    /\ latest = EmptyCache /\ instrument = InstrumentInternal
    /\ localtime = LocalTimeA /\ asked = <<>>
UploadIdle ==
    /\ waveforms = <<>> /\ m1s = <<>> /\ m2s = <<>> /\ channels = NoneSeq
    /\ upload = NoResult
ListIdle == wfmname = <<>> /\ files = <<>> /\ listed = NoResult
SessionIdle ==
    /\ timeout = DefaultTimeout /\ queue = 0 /\ original_timeout = DefaultTimeout
    /\ gotexception = FALSE /\ ready = NoResult
    /\ timeout_before = DefaultTimeout
ExperimentIdle ==
    /\ experiments = <<>> /\ exp_name = "" /\ sample_name = ""
    /\ experiment = NoResult
DriverIdle == UploadIdle /\ written = <<>> /\ ListIdle /\ SessionIdle /\ ExperimentIdle

----------------------------------------------------------------------------
(* Inputs of pack_waveform *)

Samples == {NaN} \cup {Fin(n) : n \in -(WDen + 1)..(WDen + 1)}
\* the lowest sample in range, the first one above the range, and nan
EdgeSamples == {NaN, Fin(-WDen), Fin(WDen + 1)}
MarkerValues == {0, 1, 2}

\* equal lengths, every sample, markers of 0 and 1
InitPackValues ==
    \E n \in 0..MaxLen :
        /\ wf \in [1..n -> Samples]
        /\ m1 \in [1..n -> {0, 1}]
        /\ m2 \in [1..n -> {0, 1}]

\* every combination of lengths, every marker value, the edge samples
InitPackShapes ==
    /\ wf \in SeqsUpTo(EdgeSamples, MaxLen)
    /\ m1 \in SeqsUpTo(MarkerValues, MaxLen)
    /\ m2 \in SeqsUpTo(MarkerValues, MaxLen)

InitPack ==
    /\ pc = "pack_waveform"
    /\ InitPackValues \/ InitPackShapes
    /\ packed_wf = NoResult
    /\ RecordIdle
    /\ FileIdle
    /\ DriverIdle

PackWaveform ==
    /\ pc = "pack_waveform"
    /\ packed_wf' \in pack_waveform(wf, m1, m2)
    /\ pc' = "done"
    /\ UNCHANGED <<wf, m1, m2>>
    /\ UNCHANGED <<recVars, fileVars, driverVars>>

NextPack == PackWaveform

SpecPack == InitPack /\ [][NextPack]_vars

----------------------------------------------------------------------------
(* Inputs of _pack_record *)

S_OUTPUT_WAVEFORM_NAME_1 == <<79, 85, 84, 80, 85, 84, 95, 87, 65, 86, 69, 70, 79, 82, 77, 95, 78, 65, 77, 69, 95, 49>>  \* 'OUTPUT_WAVEFORM_NAME_1'
S_wfm == <<119, 102, 109>>  \* 'wfm'

\* record names drawn: three names of the format, the empty name and a
\* name with a character outside ASCII ('\xc4')
RecordNames == {S_MAGIC, S_VERSION, S_OUTPUT_WAVEFORM_NAME_1, <<>>, <<196>>}

\* values drawn
RecordValues ==
    {PyInt(1), PyInt(5000), PyInt(-2), PyInt(40000), PyFloat(1), PyFloat(-3),
     PyStr(S_wfm), PyStr(<<>>), PyStr(<<119, 196>>), PyBytes(S_wfm),
     PyTuple(<<>>), PyTuple(<<8191, 65534>>), PyTuple(<<1, -1>>),
     PyTuple(<<2026, 11, 0, 1, 12, 0, 0, 6>>)}

\* type tags drawn: 'h' 'H' 'l' 'd' 's' | '3s' '4s' '0H' '2H' '8H' '2h'
\* | 'hh' 'zs' 'hs' 'z' '2' '' '2z'
RecordTags ==
    {<<104>>, <<72>>, <<108>>, <<100>>, <<115>>,
     <<51, 115>>, <<52, 115>>, <<48, 72>>, <<50, 72>>, <<56, 72>>, <<50, 104>>,
     <<104, 104>>, <<122, 115>>, <<104, 115>>, <<122>>, <<50>>, <<>>, <<50, 122>>}

InitRecord ==
    /\ pc = "_pack_record"
    /\ name \in RecordNames
    /\ value \in RecordValues
    /\ dtype \in RecordTags
    /\ packed_record = NoResult
    /\ PackIdle
    /\ FileIdle
    /\ DriverIdle

PackRecord ==
    /\ pc = "_pack_record"
    /\ packed_record' = _pack_record(name, value, dtype)
    /\ pc' = "done"
    /\ UNCHANGED <<name, value, dtype>>
    /\ UNCHANGED <<packVars, fileVars, driverVars>>

NextRecord == PackRecord

SpecRecord == InitRecord /\ [][NextRecord]_vars

----------------------------------------------------------------------------
(* Inputs of generate_awg_file *)

\* most waveforms in packed_waveforms
MaxWfs == 2
\* most rows (channels) of wfname_l
MaxChannels == 2
\* most columns (sequence elements) of wfname_l
MaxElems == 2

\* the waveforms drawn: 'b2', 'a1', 'c1' with their packed samples
WfPool ==
    <<[k |-> <<98, 50>>, v |-> <<0, 65534>>],
      [k |-> <<97, 49>>, v |-> <<8191>>],
      [k |-> <<99, 49>>, v |-> <<>>]>>

\* the dicts over the pool with at most n items, in every insertion order
DictsOver(pool, n) ==
    {[i \in 1..Len(ix) |-> pool[ix[i]]] :
        ix \in {t \in SeqsUpTo(1..Len(pool), n) :
                   \A i, j \in 1..Len(t) : i # j => t[i] # t[j]}}

\* the name at row r (channel r), column k: 'a', 'c', 'e', ... then the
\* digit of the channel
CellName(r, k) == <<95 + 2 * k, 48 + r>>
\* an array of R rows and K columns, with None at the cell hole (if any)
NameArray(R, K, hole) ==
    [r \in 1..R |-> [k \in 1..K |->
        IF <<r, k>> = hole THEN NoneSeq ELSE Some(CellName(r, k))]]
NameArrays ==
    {<<>>} \cup
    {NameArray(R, K, hole) :
        R \in 1..MaxChannels, K \in 0..MaxElems,
        hole \in {<<0, 0>>} \cup ((1..MaxChannels) \X (1..MaxElems))}

\* the four lists of the sequence table for n elements
NrepList(n) == [k \in 1..n |-> 65537 - k]
TrigWaitList(n) == [k \in 1..n |-> k % 2]
GotoStateList(n) == [k \in 1..n |-> 20 + k]
JumpToList(n) == [k \in 1..n |-> 10 + k]

S_CHANNEL_STATE_1 == <<67, 72, 65, 78, 78, 69, 76, 95, 83, 84, 65, 84, 69, 95, 49>>  \* 'CHANNEL_STATE_1'
S_CHANNEL_STATE_12 == <<67, 72, 65, 78, 78, 69, 76, 95, 83, 84, 65, 84, 69, 95, 49, 50>>  \* 'CHANNEL_STATE_12'
S_CHANNEL_STATE_X == <<67, 72, 65, 78, 78, 69, 76, 95, 83, 84, 65, 84, 69, 95, 88>>  \* 'CHANNEL_STATE_X'
S_ANALOG_AMPLITUDE_1 == <<65, 78, 65, 76, 79, 71, 95, 65, 77, 80, 76, 73, 84, 85, 68, 69, 95, 49>>  \* 'ANALOG_AMPLITUDE_1'
S_ANALOG_AMPLITUDE_2 == <<65, 78, 65, 76, 79, 71, 95, 65, 77, 80, 76, 73, 84, 85, 68, 69, 95, 50>>  \* 'ANALOG_AMPLITUDE_2'
S_FOO_1 == <<70, 79, 79, 95, 49>>  \* 'FOO_1'
S_FOO == <<70, 79, 79>>  \* 'FOO'

Item(key, val) == [k |-> key, v |-> val]

\* two channel settings, and the channel settings drawn
ChannelCfgFull ==
    <<Item(S_ANALOG_AMPLITUDE_2, PyFloat(1)), Item(S_CHANNEL_STATE_1, PyInt(1))>>
ChannelCfgs ==
    {<<>>, ChannelCfgFull,
     <<Item(S_CHANNEL_STATE_1, PyInt(1))>>,
     <<Item(S_FOO_1, PyInt(1)), Item(S_CHANNEL_STATE_1, PyInt(1))>>,
     <<Item(S_CHANNEL_STATE_12, PyInt(1))>>,
     <<Item(S_CHANNEL_STATE_X, PyInt(1))>>,
     <<Item(S_OUTPUT_WAVEFORM_NAME_1, PyStr(S_wfm))>>,
     <<Item(S_ANALOG_AMPLITUDE_1, PyFloat(2))>>}

\* two head settings, and the head settings drawn (None: argument omitted)
SequenceCfgFull ==
    Some(<<Item(S_RUN_MODE, PyInt(4)), Item(S_SAMPLING_RATE, PyFloat(1000000000))>>)
SequenceCfgs ==
    {NoneSeq, Some(<<>>), SequenceCfgFull,
     Some(<<Item(S_SAMPLING_RATE, PyFloat(1000000000))>>),
     Some(<<Item(S_SAMPLING_RATE, PyFloat(1000000000)), Item(S_RUN_MODE, PyInt(4))>>),
     Some(<<Item(S_FOO, PyInt(1)), Item(S_RUN_MODE, PyInt(4))>>),
     Some(<<Item(S_RUN_MODE, PyInt(40000))>>)}

\* a cache after some channel parameters were set
CacheSet ==
    [EmptyCache EXCEPT
        !.direct_output[2] = Some(PyInt(1)),
        !.filter[1] = Some("20e6"),
        !.amp[1] = Some(PyFloat(1)),
        !.m1_del[1] = Some(PyFloat(1)),
        !.add_input[3] = Some("\"ESIG\"")]
\* a cache after ch1_filter was read back from the instrument (the raw reply)
CacheRawFilter == [EmptyCache EXCEPT !.filter[1] = Some("2.0000000000E+07")]

\* an instrument with external clock and trigger settings
InstrumentExternal ==
    [clock_freq |-> 1200000000,
     clock_source |-> <<69, 88, 84>>, roscillator_source |-> <<69, 88, 84>>,
     trigger_source |-> <<69, 88, 84>>, trigger_impedance |-> 1000,
     trigger_slope |-> <<78, 69, 71>>, trigger_polarity |-> <<78, 69, 71>>,
     trigger_level |-> -2,
     event_impedance |-> 1000, event_polarity |-> <<78, 69, 71>>,
     event_level |-> -2, event_jump_timing |-> <<65, 83, 89, 78, 67>>]

\* 2027-07-04 00:00:00, a Sunday, day 185 of the year, DST
LocalTimeB == <<2027, 7, 4, 0, 0, 0, 6, 185, 1>>

\* the lists of the sequence table: as long as the table, or one short
InitTable ==
    \E short \in {0, 1} :
        LET n == IF NumSegments(wfname_l) >= short
                     THEN NumSegments(wfname_l) - short ELSE 0
        IN  /\ nrep = NrepList(n)
            /\ trig_wait = TrigWaitList(n)
            /\ goto_state = GotoStateList(n)
            /\ jump_to = JumpToList(n)

\* every dict of waveforms with one table, and every array of names (with
\* lists as long as the table or one short) with one dict of waveforms; no
\* settings, or two channel settings and two head settings
InitFileBlocks ==
    /\ \/ /\ packed_waveforms \in DictsOver(WfPool, MaxWfs)
          /\ wfname_l = NameArray(2, 1, <<0, 0>>)
          /\ nrep = NrepList(1) /\ trig_wait = TrigWaitList(1)
          /\ goto_state = GotoStateList(1) /\ jump_to = JumpToList(1)
       \/ /\ packed_waveforms = <<WfPool[1], WfPool[2]>>
          /\ wfname_l \in NameArrays
          /\ InitTable
    /\ \E full \in BOOLEAN :
          /\ channel_cfg = IF full THEN ChannelCfgFull ELSE <<>>
          /\ sequence_cfg = IF full THEN SequenceCfgFull ELSE Some(<<>>)
    /\ preservechannelsettings = FALSE
    /\ latest = EmptyCache
    /\ instrument = InstrumentInternal
    /\ localtime = LocalTimeA

\* every combination of settings, with no waveform and no sequence or with
\* two waveforms and one sequence element on two channels
InitFileSettings ==
    /\ \E loaded \in BOOLEAN :
          /\ packed_waveforms = IF loaded THEN <<WfPool[1], WfPool[2]>> ELSE <<>>
          /\ wfname_l = IF loaded THEN NameArray(2, 1, <<0, 0>>) ELSE <<>>
    /\ nrep = NrepList(NumSegments(wfname_l))
    /\ trig_wait = TrigWaitList(NumSegments(wfname_l))
    /\ goto_state = GotoStateList(NumSegments(wfname_l))
    /\ jump_to = JumpToList(NumSegments(wfname_l))
    /\ channel_cfg \in ChannelCfgs
    /\ sequence_cfg \in SequenceCfgs
    /\ preservechannelsettings \in BOOLEAN
    /\ latest \in IF preservechannelsettings
                     THEN {EmptyCache, CacheSet, CacheRawFilter} ELSE {EmptyCache}
    /\ instrument \in IF sequence_cfg.none
                         THEN {InstrumentInternal, InstrumentExternal}
                         ELSE {InstrumentInternal}
    /\ localtime \in {LocalTimeA, LocalTimeB}

InitFile ==
    /\ pc = "generate_awg_file"
    /\ InitFileBlocks \/ InitFileSettings
    /\ awg_file = NoResult
    /\ asked = <<>>
    /\ PackIdle
    /\ RecordIdle
    /\ DriverIdle

\* the variables after the call with outcome out
FileDone(out) ==
    /\ awg_file' = out.awg_file
    /\ channel_cfg' = out.channel_cfg
    /\ asked' = asked \o out.asked

\* a call of generate_awg_file: the first one, or one more with the same
\* arguments after the session went on
GenerateAwgFile ==
    /\ pc \in {"generate_awg_file", "generate_awg_file again"}
    /\ FileDone(generate_awg_file(packed_waveforms, wfname_l, nrep, trig_wait,
                    goto_state, jump_to, channel_cfg, sequence_cfg,
                    preservechannelsettings, latest, instrument, localtime))
    /\ pc' = IF pc = "generate_awg_file" THEN "done" ELSE "done again"
    /\ UNCHANGED <<fileArgs, envVars, packVars, recVars, driverVars>>

NextFile == GenerateAwgFile

SpecFile == InitFile /\ [][NextFile]_vars

----------------------------------------------------------------------------
(* Two calls of generate_awg_file with the same arguments. Between them the
   session goes on: the instrument is reconfigured and channel parameters
   are set (which updates the cache of latest values), while the clock is
   held at one timestamp. *)

\* the states of the instrument and of the cache the session may be in
Instruments == {InstrumentInternal, InstrumentExternal}
Caches == {EmptyCache, CacheSet}

InitRepeat ==
    /\ pc = "generate_awg_file"
    /\ \E loaded \in BOOLEAN :
          /\ packed_waveforms = IF loaded THEN <<WfPool[1], WfPool[2]>> ELSE <<>>
          /\ wfname_l = IF loaded THEN NameArray(2, 1, <<0, 0>>) ELSE <<>>
    /\ nrep = NrepList(NumSegments(wfname_l))
    /\ trig_wait = TrigWaitList(NumSegments(wfname_l))
    /\ goto_state = GotoStateList(NumSegments(wfname_l))
    /\ jump_to = JumpToList(NumSegments(wfname_l))
    /\ channel_cfg \in {<<>>, ChannelCfgFull}
    /\ sequence_cfg \in {NoneSeq, SequenceCfgFull}
    /\ preservechannelsettings \in BOOLEAN
    /\ latest \in Caches
    /\ instrument \in Instruments
    /\ localtime \in {LocalTimeA, LocalTimeB}
    /\ awg_file = NoResult
    /\ asked = <<>>
    /\ PackIdle
    /\ RecordIdle
    /\ DriverIdle

\* the session between two calls: settings of the instrument and cached
\* channel parameters change, the arguments of the call stay as they are
SessionChange ==
    /\ pc = "done"
    /\ instrument' \in Instruments
    /\ latest' \in Caches
    /\ pc' = "generate_awg_file again"
    /\ UNCHANGED <<localtime, fileArgs, channel_cfg, awg_file, asked>>
    /\ UNCHANGED <<packVars, recVars, driverVars>>

NextRepeat == GenerateAwgFile \/ SessionChange

SpecRepeat == InitRepeat /\ [][NextRepeat]_vars

----------------------------------------------------------------------------
(* Inputs of make_send_and_load_awg_file: waveforms of two samples on a grid
   of channels and sequence elements, as a list of lists; at most one of
   them is one that pack_waveform rejects *)

\* the ways a waveform can be faulty
Faults == {"length", "range", "marker 1", "marker 2"}

\* the samples of the waveform at row ii, column jj
UploadWf(ii, jj, fault) ==
    IF fault = "range" THEN <<Fin(jj), Fin(WDen + 1)>> ELSE <<Fin(jj), Fin(-ii)>>
UploadM1(ii, jj, fault) ==
    IF fault = "length" THEN <<1>> ELSE IF fault = "marker 1" THEN <<1, 2>> ELSE <<1, 0>>
UploadM2(ii, jj, fault) ==
    IF fault = "marker 2" THEN <<2, 1>> ELSE <<jj % 2, 1>>

\* R rows of K arrays made by Cell, the one at the position bad with the fault
UploadGrid(Cell(_, _, _), R, K, bad, fault) ==
    [ii \in 1..R |-> [jj \in 1..K |->
        Cell(ii, jj, IF <<ii, jj>> = bad THEN fault ELSE "none")]]

\* the lists of channels drawn for R rows: none, the channels in reverse
\* order, the numbers 2, 12, 22, ..., and a list of the single channel 4
ChannelLists(R) ==
    {NoneSeq, Some([ii \in 1..R |-> R + 1 - ii]),
     Some([ii \in 1..R |-> 10 * ii - 8]), Some(<<4>>)}

InitUploadWaveforms ==
    /\ \E R \in 0..MaxChannels, K \in 0..MaxElems :
       \E bad \in {<<0, 0>>} \cup ((1..R) \X (1..K)), fault \in Faults :
       \E short \in {0, 1} :
          /\ bad = <<0, 0>> => fault = "length"
          /\ R = 0 => K = 0
          /\ waveforms = UploadGrid(UploadWf, R, K, bad, fault)
          /\ m1s = UploadGrid(UploadM1, R, K, bad, fault)
          /\ m2s = UploadGrid(UploadM2, R, K, bad, fault)
          /\ channels \in ChannelLists(R)
          /\ nrep = NrepList(IF K >= short THEN K - short ELSE 0)
          /\ trig_wait = TrigWaitList(K)
          /\ goto_state = GotoStateList(K)
          /\ jump_to = JumpToList(K)
    /\ preservechannelsettings = TRUE
    /\ latest = EmptyCache
    /\ instrument = InstrumentInternal

InitUploadSettings ==
    /\ waveforms = UploadGrid(UploadWf, 2, 1, <<0, 0>>, "none")
    /\ m1s = UploadGrid(UploadM1, 2, 1, <<0, 0>>, "none")
    /\ m2s = UploadGrid(UploadM2, 2, 1, <<0, 0>>, "none")
    /\ channels = NoneSeq
    /\ nrep = NrepList(1) /\ trig_wait = TrigWaitList(1)
    /\ goto_state = GotoStateList(1) /\ jump_to = JumpToList(1)
    /\ preservechannelsettings \in BOOLEAN
    /\ latest \in IF preservechannelsettings
                     THEN {EmptyCache, CacheSet, CacheRawFilter} ELSE {EmptyCache}
    /\ instrument \in {InstrumentInternal, InstrumentExternal}

InitUpload ==
    /\ pc = "make_send_and_load_awg_file"
    /\ InitUploadWaveforms \/ InitUploadSettings
    /\ upload = NoResult
    /\ written = <<>>
    /\ packed_waveforms = <<>> /\ wfname_l = <<>>
    /\ channel_cfg = <<>> /\ sequence_cfg = NoneSeq
    /\ awg_file = NoResult
    /\ localtime = LocalTimeA /\ asked = <<>>
    /\ PackIdle
    /\ RecordIdle
    /\ ListIdle
    /\ SessionIdle
    /\ ExperimentIdle

\* the variables after the call with outcome out
UploadDone(out) ==
    /\ upload' = out.upload
    /\ written' = written \o out.written
    /\ asked' = asked \o out.asked

\* a call of make_send_and_load_awg_file with the default filename
MakeSendAndLoadAwgFile ==
    /\ pc = "make_send_and_load_awg_file"
    /\ UploadDone(make_send_and_load_awg_file(waveforms, m1s, m2s, nrep,
                      trig_wait, goto_state, jump_to, channels, S_customawgfile,
                      preservechannelsettings, latest, instrument, localtime))
    /\ pc' = "done"
    /\ UNCHANGED <<waveforms, m1s, m2s, channels, fileArgs, channel_cfg, awg_file>>
    /\ UNCHANGED <<envVars, packVars, recVars, listVars, sessionVars, expVars>>

NextUpload == MakeSendAndLoadAwgFile

SpecUpload == InitUpload /\ [][NextUpload]_vars

----------------------------------------------------------------------------
(* Inputs of send_waveform_to_list *)

\* -1, -1/WDen, 0, 1/WDen, the first sample above the range, and nan
ListSamples == {NaN, Fin(-WDen), Fin(-1), Fin(0), Fin(1), Fin(WDen + 1)}

\* equal lengths, markers of 0 and 1
InitListValues ==
    \E n \in 0..MaxLen :
        /\ wf \in [1..n -> ListSamples]
        /\ m1 \in [1..n -> {0, 1}]
        /\ m2 \in [1..n -> {0, 1}]

\* every combination of lengths, with markers of 0 and 2
InitListShapes ==
    /\ wf \in SeqsUpTo({Fin(0)}, MaxLen)
    /\ m1 \in SeqsUpTo({0, 2}, MaxLen)
    /\ m2 \in SeqsUpTo({0, 2}, MaxLen)

\* the table of files after a waveform 'a1' of one sample was sent
FilesBefore == <<[k |-> <<97, 49>>, v |-> _file_dict(<<Fin(0)>>, <<0>>, <<0>>)]>>

InitList ==
    /\ pc = "send_waveform_to_list"
    /\ InitListValues \/ InitListShapes
    /\ wfmname = <<97, 49>>
    /\ files \in {<<>>, FilesBefore}
    /\ listed = NoResult
    /\ written = <<>>
    /\ packed_wf = NoResult
    /\ RecordIdle
    /\ FileIdle
    /\ UploadIdle
    /\ SessionIdle
    /\ ExperimentIdle

\* the variables after the call with outcome out
ListDone(out) ==
    /\ listed' = out.listed
    /\ files' = out.files
    /\ written' = written \o out.written

SendWaveformToList ==
    /\ pc = "send_waveform_to_list"
    /\ \E out \in send_waveform_to_list(wf, m1, m2, wfmname, files) : ListDone(out)
    /\ pc' = "done"
    /\ UNCHANGED <<wf, m1, m2, packed_wf, wfmname>>
    /\ UNCHANGED <<recVars, fileVars, uploadVars, sessionVars, expVars>>

NextList == SendWaveformToList

SpecList == InitList /\ [][NextList]_vars

----------------------------------------------------------------------------
(* is_awg_ready and clear_message_queue. The instrument holds queue messages
   that were not read yet; visa_handle.read() takes the oldest one, or
   raises VisaIOError when none comes within the timeout. *)

\* most messages waiting in the output queue of the instrument
MaxQueue == 5

\* line 1478: the timeout while the queue is drained, in ms
DrainTimeout == 1000

\* the timeouts a session may have set
Timeouts == {DrainTimeout, 5000, 30000, DefaultTimeout}

InitSession ==
    /\ pc \in {"is_awg_ready", "clear_message_queue"}
    /\ timeout \in Timeouts
    /\ timeout_before = timeout
    /\ queue \in 0..MaxQueue
    /\ original_timeout = 0
    /\ gotexception = FALSE
    /\ ready = NoResult
    /\ written = <<>>
    /\ PackIdle
    /\ RecordIdle
    /\ FileIdle
    /\ UploadIdle
    /\ ListIdle
    /\ ExperimentIdle

\* lines 1395-1403 when ask('*OPC?') returns: the reply of the instrument, or
\* with no reply in time the oldest message waiting, was read
ReadyAnswered(replied) ==
    /\ replied \/ queue > 0
    /\ queue' = IF replied THEN queue ELSE queue - 1
    /\ ready' = Return(TRUE)

\* lines 1399-1403 when ask('*OPC?') raises (nothing to read within the
\* timeout): the exception is logged and visa_handle.read() is called, which
\* returns when a message comes in late and raises VisaIOError otherwise
ReadyRecovered(late) ==
    /\ queue = 0
    /\ queue' = queue
    /\ ready' = IF late THEN Return(TRUE) ELSE Raise("VisaIOError")

\* a call of is_awg_ready
IsAwgReady ==
    /\ pc = "is_awg_ready"
    /\ \E replied, late \in BOOLEAN :
          ReadyAnswered(replied) \/ (~replied /\ ReadyRecovered(late))
    /\ asked' = Append(asked, "*OPC?")
    /\ pc' = "is_awg_ready: done"
    /\ UNCHANGED <<timeout, original_timeout, gotexception, timeout_before, written>>
    /\ UNCHANGED <<fileArgs, channel_cfg, awg_file, envVars>>
    /\ UNCHANGED <<packVars, recVars, uploadVars, listVars, expVars>>

\* the variables clear_message_queue leaves alone
ClearFrame ==
    /\ UNCHANGED <<ready, timeout_before, written>>
    /\ UNCHANGED <<packVars, recVars, fileVars, uploadVars, listVars, expVars>>

\* variant: the timeout of the drain kept on entry as the one to restore
ClearStartSavesLate ==
    /\ pc = "clear_message_queue"
    /\ original_timeout' = DrainTimeout
    /\ timeout' = DrainTimeout
    /\ gotexception' = FALSE
    /\ pc' = "clear_message_queue: read"
    /\ UNCHANGED queue
    /\ ClearFrame

\* lines 1477-1479: the timeout saved and set to one second
ClearStart ==
    /\ pc = "clear_message_queue"
    /\ original_timeout' = timeout
    /\ timeout' = DrainTimeout
    /\ gotexception' = FALSE
    /\ pc' = "clear_message_queue: read"
    /\ UNCHANGED queue
    /\ ClearFrame

\* lines 1480-1486: one pass of the loop. The read returns a message and the
\* loop goes on, or no message is there within the timeout, VisaIOError is
\* raised and the loop ends, or reading a message raises an exception other
\* than VisaIOError, which is not caught and ends the call
ClearRead ==
    /\ pc = "clear_message_queue: read"
    /\ \/ /\ queue > 0
          /\ queue' = queue - 1
          /\ UNCHANGED <<gotexception, pc>>
       \/ /\ queue = 0
          /\ gotexception' = TRUE
          /\ pc' = "clear_message_queue: restore"
          /\ UNCHANGED queue
       \/ /\ queue > 0
          /\ queue' = queue - 1
          /\ pc' = "clear_message_queue: raised"
          /\ UNCHANGED gotexception
    /\ UNCHANGED <<timeout, original_timeout>>
    /\ ClearFrame

\* line 1487: the timeout restored, and the return
ClearRestore ==
    /\ pc = "clear_message_queue: restore"
    /\ timeout' = original_timeout
    /\ pc' = "clear_message_queue: done"
    /\ UNCHANGED <<queue, original_timeout, gotexception>>
    /\ ClearFrame

\* the instrument puts one more message into its output queue
MessageArrives ==
    /\ pc \in {"clear_message_queue", "clear_message_queue: read"}
    /\ queue < MaxQueue
    /\ queue' = queue + 1
    /\ UNCHANGED <<pc, timeout, original_timeout, gotexception>>
    /\ ClearFrame

NextSession == IsAwgReady \/ ClearStart \/ ClearRead \/ ClearRestore \/ MessageArrives

SpecSession == InitSession /\ [][NextSession]_vars

----------------------------------------------------------------------------
(* The experiments of the database (qcodes.dataset.experiment_container, as
   the tests of test_experiment_container.py use it): an experiment is a
   row [exp_id, name, sample_name]; new_experiment adds a row,
   load_experiment_by_name finds the row of a name and a sample name, and
   load_or_create_experiment loads the row if there is one and creates it
   otherwise. *)

ExperimentNames == {"experiment_name", "experiment_name_2"}
SampleNames == {"sample_name_1", "sample_name_2"}

\* the rows of db with the name n and the sample name s
Matching(db, n, s) == {i \in 1..Len(db) : db[i].name = n /\ db[i].sample_name = s}

\* new_experiment(n, s): the database with the new row
new_experiment(db, n, s) ==
    Append(db, [exp_id |-> Len(db) + 1, name |-> n, sample_name |-> s])

\* load_experiment_by_name(n, s): the row found, or ValueError
load_experiment_by_name(db, n, s) ==
    IF Matching(db, n, s) = {} THEN Raise("ValueError: Experiment not found")
    ELSE IF Cardinality(Matching(db, n, s)) > 1
        THEN Raise("ValueError: Many experiments matching your request found")
    ELSE Return(db[CHOOSE i \in Matching(db, n, s) : TRUE])

\* variant: a new experiment created whenever the sample name is given
LoadOrCreateAlwaysNew(db, n, s, found) ==
    [db |-> new_experiment(db, n, s),
     experiment |-> Return(new_experiment(db, n, s)[Len(db) + 1])]

\* load_or_create_experiment(n, s) given the outcome of loading by name: the
\* database after the call and the experiment returned
LoadOrCreate(db, n, s, found) ==
    IF found.raised = "none" THEN [db |-> db, experiment |-> found]
    ELSE IF found.raised = "ValueError: Experiment not found"
        THEN [db |-> new_experiment(db, n, s),
              experiment |-> Return(new_experiment(db, n, s)[Len(db) + 1])]
    ELSE [db |-> db, experiment |-> found]

load_or_create_experiment(db, n, s) ==
    LoadOrCreate(db, n, s, load_experiment_by_name(db, n, s))

\* an empty database, or one experiment made by new_experiment
InitExperiment ==
    /\ pc = "session"
    /\ experiments \in {<<>>} \cup {new_experiment(<<>>, n, s) :
                                       n \in ExperimentNames, s \in SampleNames}
    /\ exp_name = "" /\ sample_name = ""
    /\ experiment = NoResult
    /\ written = <<>>
    /\ PackIdle
    /\ RecordIdle
    /\ FileIdle
    /\ UploadIdle
    /\ ListIdle
    /\ SessionIdle

\* the variables after the call with outcome out
ExperimentDone(out) ==
    /\ experiments' = out.db
    /\ experiment' = out.experiment

\* one more call of load_or_create_experiment in the session
LoadOrCreateExperiment ==
    /\ pc = "session"
    /\ \E n \in ExperimentNames, s \in SampleNames :
          /\ exp_name' = n
          /\ sample_name' = s
          /\ ExperimentDone(load_or_create_experiment(experiments, n, s))
    /\ UNCHANGED <<pc, written>>
    /\ UNCHANGED <<packVars, recVars, fileVars, uploadVars, listVars, sessionVars>>

NextExperiment == LoadOrCreateExperiment

SpecExperiment == InitExperiment /\ [][NextExperiment]_vars

----------------------------------------------------------------------------
(* Properties of pack_waveform (checked under SpecPack) *)

SameLengths == Len(wf) = Len(m1) /\ Len(m1) = Len(m2)
\* a finite sample in [-1, 1]
InUnitRange(w) == ~w.nan /\ -WDen <= w.num /\ w.num <= WDen
\* the three preconditions of pack_waveform
ValidPackInput ==
    /\ SameLengths
    /\ \A i \in 1..Len(wf) : InUnitRange(wf[i])
    /\ \A i \in 1..Len(m1) : m1[i] \in {0, 1}
    /\ \A i \in 1..Len(m2) : m2[i] \in {0, 1}
Returned == pc = "done" /\ packed_wf.raised = "none"
\* r is the scaled sample w * 8191 rounded to a nearest integer
NearestTo8191(r, w) ==
    /\ 2 * (r * WDen - w.num * 8191) <= WDen
    /\ 2 * (w.num * 8191 - r * WDen) <= WDen

\* C1: for every position of every valid input the returned sample is
\* round(w*8191) + 8191 + 16384*m1 + 32768*m2; the amplitude part lies in
\* [0, 16382], w = 0 gives 8191, and the three worked examples hold.
C1_PackFormula ==
    (Returned /\ ValidPackInput) =>
        /\ \A i \in 1..Len(wf) :
              LET amp == packed_wf.value[i] - 16384 * m1[i] - 32768 * m2[i]
              IN  /\ NearestTo8191(amp - 8191, wf[i])
                  /\ 0 <= amp /\ amp <= 16382
                  /\ (wf[i].num = 0 => amp = 8191)
        /\ (wf = <<Fin(0)>> /\ m1 = <<0>> /\ m2 = <<0>>)
              => packed_wf.value = <<8191>>
        /\ (wf = <<Fin(WDen)>> /\ m1 = <<1>> /\ m2 = <<0>>)
              => packed_wf.value = <<32766>>
        /\ (wf = <<Fin(-WDen)>> /\ m1 = <<0>> /\ m2 = <<1>>)
              => packed_wf.value = <<32768>>

\* a valid two-sample input whose scaled amplitude is not an integer was packed
C1_Witness ==
    /\ Returned /\ ValidPackInput /\ Len(wf) = 2
    /\ (wf[1].num * 8191) % WDen # 0
    /\ m1[1] = 1 /\ m2[2] = 1

\* C2: in every packed sample of a valid input bit 14 is the marker-1 value
\* and bit 15 the marker-2 value of the same position.
C2_MarkerBits ==
    (Returned /\ ValidPackInput) =>
        \A i \in 1..Len(wf) :
            /\ (packed_wf.value[i] \div 16384) % 2 = m1[i]
            /\ (packed_wf.value[i] \div 32768) % 2 = m2[i]

\* full positive amplitude packed with marker 1 clear and marker 2 set
C2_Witness ==
    /\ Returned /\ ValidPackInput
    /\ \E i \in 1..Len(wf) : wf[i].num = WDen /\ m1[i] = 0 /\ m2[i] = 1

\* C3: for valid inputs the sum computed before the conversion to unsigned
\* 16 bit lies in [0, 65535], so the returned sample is that sum, unwrapped.
C3_NoWrap ==
    (Returned /\ ValidPackInput) =>
        \A i \in 1..Len(wf) :
            /\ 0 <= SampleSum(wf[i], m1[i], m2[i])
            /\ SampleSum(wf[i], m1[i], m2[i]) <= 65535
            /\ packed_wf.value[i] = SampleSum(wf[i], m1[i], m2[i])

\* both extremes were packed: the largest sum (65534) and the smallest (0)
C3_Witness ==
    /\ Returned /\ ValidPackInput /\ Len(wf) = 2
    /\ packed_wf.value[1] = 65534 /\ packed_wf.value[2] = 0

\* C4: with sequences of different lengths pack_waveform fails with the
\* length-mismatch error and returns no samples, whatever the values are.
C4_LengthMismatch ==
    (pc = "done" /\ ~SameLengths) =>
        /\ packed_wf.raised = "Exception: sizes of the waveforms do not match"
        /\ packed_wf.value = <<>>

\* a call with mismatched lengths and an out-of-range sample and an invalid
\* marker has completed
C4_Witness ==
    /\ pc = "done" /\ ~SameLengths
    /\ \E i \in 1..Len(wf) : ~InUnitRange(wf[i])
    /\ \E i \in 1..Len(m1) : m1[i] = 2

\* C5 (the claim as stated, restricted to finite samples): on equal-length
\* inputs the call fails whenever a waveform sample lies outside [-1, 1] or a
\* marker sample is not 0 or 1, and it succeeds only on valid input.
C5_RejectsInvalid ==
    (pc = "done" /\ SameLengths) =>
        /\ ( \/ \E i \in 1..Len(wf) :
                   ~wf[i].nan /\ (wf[i].num < -WDen \/ wf[i].num > WDen)
             \/ \E i \in 1..Len(m1) : m1[i] \notin {0, 1}
             \/ \E i \in 1..Len(m2) : m2[i] \notin {0, 1} )
           => (packed_wf.raised # "none" /\ packed_wf.value = <<>>)
        /\ packed_wf.raised = "none" =>
              \A i \in 1..Len(wf) : ~wf[i].nan => InUnitRange(wf[i])

\* C6 (the claim as stated): every input meeting the three preconditions,
\* the empty one included, is packed into as many samples as it has.
C6_LengthPreserved ==
    (pc = "done" /\ ValidPackInput) =>
        /\ packed_wf.raised = "none"
        /\ Len(packed_wf.value) = Len(wf)

\* C6: the arguments are left as they were by the call
C6_InputsUnchanged == [][PackWaveform => (wf' = wf /\ m1' = m1 /\ m2' = m2)]_vars

----------------------------------------------------------------------------
(* Properties of _pack_record (checked under SpecRecord) *)

\* the unsigned 32-bit little-endian number at bytes i..i+3 of r
LE32(r, i) == r[i] + 256 * r[i + 1] + 65536 * r[i + 2] + 16777216 * r[i + 3]
RecordReturned == pc = "done" /\ packed_record.raised = "none"
\* the data part of a returned record whose name has n characters
DataPart(r, n) == SubSeq(r, 8 + n + 2, Len(r))

\* C7: the bytes returned by _pack_record are u32le(len(name)+1),
\* u32le(len(data)), the ASCII name, one NUL byte and the data bytes, so the
\* record is 8 + len(name) + 1 + len(data) bytes long; ('VERSION', 1, 'h')
\* gives 08 00 00 00 02 00 00 00 56 45 52 53 49 4F 4E 00 01 00.
C7_RecordFraming ==
    RecordReturned =>
        LET r == packed_record.value
            data == RecordData(value, dtype).value
        IN  /\ Len(r) = 8 + Len(name) + 1 + Len(data)
            /\ LE32(r, 1) = Len(name) + 1
            /\ LE32(r, 5) = Len(data)
            /\ SubSeq(r, 9, 8 + Len(name)) = name
            /\ r[8 + Len(name) + 1] = 0
            /\ DataPart(r, Len(name)) = data
            /\ (name = S_VERSION /\ value = PyInt(1) /\ dtype = <<104>>)
                  => r = <<8, 0, 0, 0, 2, 0, 0, 0,
                           86, 69, 82, 83, 73, 79, 78, 0, 1, 0>>

\* a record with a name and with array data was returned
C7_Witness ==
    /\ RecordReturned
    /\ name = S_OUTPUT_WAVEFORM_NAME_1
    /\ dtype = <<50, 72>> /\ value = PyTuple(<<8191, 65534>>)

\* a string tag: 's' preceded by a count of any number of digits, or alone
IsStringTag(tag) ==
    /\ Len(tag) >= 1
    /\ tag[Len(tag)] = 115
    /\ \A i \in 1..(Len(tag) - 1) : IsDigit(tag[i])

\* C8 (the claim as stated): under every string tag, the single character
\* 's' included, the data of the record are the ASCII bytes of the value
\* and data_size is the number of characters of the value.
C8_StringData ==
    (pc = "done" /\ IsStringTag(dtype) /\ value.ty = "str"
                 /\ IsAscii(value.s) /\ IsAscii(name)) =>
        /\ packed_record.raised = "none"
        /\ LE32(packed_record.value, 5) = Len(value.s)
        /\ DataPart(packed_record.value, Len(name)) = value.s

\* a recognised tag: one primitive code, a count and a primitive code, or a
\* string tag
IsRecognisedTag(tag) ==
    /\ Len(tag) >= 1
    /\ tag[Len(tag)] \in IntCodes \cup {100, 115}
    /\ \A i \in 1..(Len(tag) - 1) : IsDigit(tag[i])

\* C9 (the claim as stated): a tag that is not of a recognised form makes
\* _pack_record fail and return no record bytes.
C9_UnsupportedRejected ==
    (pc = "done" /\ ~IsRecognisedTag(dtype)) =>
        /\ packed_record.raised # "none"
        /\ packed_record.value = <<>>

----------------------------------------------------------------------------
(* Reading a container back: the records of a byte sequence *)

RECURSIVE ParseRecordsFrom(_, _, _)
\* the records [name, data] of the bytes b from position i on; ok is false
\* when the bytes do not end with the end of a record
ParseRecordsFrom(b, i, recs) ==
    IF i = Len(b) + 1 THEN [ok |-> TRUE, recs |-> recs]
    ELSE IF i + 7 > Len(b) THEN [ok |-> FALSE, recs |-> recs]
    ELSE LET ns == LE32(b, i)
             ds == LE32(b, i + 4)
         IN  IF ns < 1 \/ i + 7 + ns + ds > Len(b) \/ b[i + 7 + ns] # 0
                 THEN [ok |-> FALSE, recs |-> recs]
             ELSE ParseRecordsFrom(b, i + 8 + ns + ds,
                      Append(recs, [name |-> SubSeq(b, i + 8, i + 6 + ns),
                                    data |-> SubSeq(b, i + 8 + ns, i + 7 + ns + ds)]))
ParseRecords(b) == ParseRecordsFrom(b, 1, <<>>)

\* the block a record name belongs to: 1 head, 2 channel settings,
\* 3 waveforms, 4 sequence, 0 none
BlockOf(nm) ==
    IF nm \in {S_MAGIC, S_VERSION} \/ DictHas(AWG_FILE_FORMAT_HEAD, nm) THEN 1
    ELSE IF DictHas(AWG_FILE_FORMAT_CHANNEL, ChannelKey(nm)) THEN 2
    ELSE IF StartsWith(nm, <<87, 65, 86, 69, 70, 79, 82, 77, 95>>) THEN 3
    ELSE IF StartsWith(nm, <<83, 69, 81, 85, 69, 78, 67, 69, 95>>) THEN 4
    ELSE 0

\* number of records of block blk among recs
BlockCount(recs, blk) == Cardinality({i \in 1..Len(recs) : BlockOf(recs[i].name) = blk})
\* number of keys of the dict d that the whitelist wl holds (after Key)
Whitelisted(d, wl, Key(_)) == Cardinality({i \in 1..Len(d) : DictHas(wl, Key(d[i].k))})
SameKey(key) == key
\* number of entries of the array of names that are not None
NamedCells == Cardinality({c \in (1..Len(wfname_l)) \X (1..NumSegments(wfname_l)) :
                              ~wfname_l[c[1]][c[2]].none})

----------------------------------------------------------------------------
(* Properties of generate_awg_file (checked under SpecFile) *)

FileReturned == pc = "done" /\ awg_file.raised = "none"

\* C10: a returned container is the head block, the channel-settings block,
\* the waveform block and the sequence block in this order with nothing in
\* between: it reads back as whole records, no record of a later block
\* precedes one of an earlier block, and each block has all its records.
C10_BlockOrder ==
    FileReturned =>
        LET p == ParseRecords(awg_file.value)
            head_cfg == IF sequence_cfg.none THEN generate_sequence_cfg(instrument)
                        ELSE sequence_cfg.x
        IN  /\ p.ok
            /\ \A i \in 1..Len(p.recs) : BlockOf(p.recs[i].name) >= 1
            /\ \A i, j \in 1..Len(p.recs) :
                  i < j => BlockOf(p.recs[i].name) <= BlockOf(p.recs[j].name)
            /\ BlockCount(p.recs, 1)
                  = 2 + Whitelisted(head_cfg, AWG_FILE_FORMAT_HEAD, SameKey)
            /\ BlockCount(p.recs, 2)
                  = Whitelisted(channel_cfg, AWG_FILE_FORMAT_CHANNEL, ChannelKey)
            /\ BlockCount(p.recs, 3) = 5 * Len(packed_waveforms)
            /\ BlockCount(p.recs, 4) = 4 * NumSegments(wfname_l) + NamedCells

\* a container with records in all four blocks was returned
C10_Witness ==
    /\ FileReturned /\ ~sequence_cfg.none
    /\ Whitelisted(sequence_cfg.x, AWG_FILE_FORMAT_HEAD, SameKey) = 2
    /\ Whitelisted(channel_cfg, AWG_FILE_FORMAT_CHANNEL, ChannelKey) = 2
    /\ Len(packed_waveforms) = 2
    /\ NumSegments(wfname_l) = 2 /\ Len(wfname_l) = 2 /\ NamedCells = 3


\* the first n bytes of a container
Prefix(b, n) == SubSeq(b, 1, n)

\* the MAGIC record (name size 6, data size 2, 'MAGIC', NUL, 5000 as 88 13)
\* followed by the VERSION record (name size 8, data size 2, 'VERSION', NUL,
\* 1 as 01 00)
MagicVersionBytes ==
    <<6, 0, 0, 0, 2, 0, 0, 0>> \o <<77, 65, 71, 73, 67>> \o <<0, 136, 19>>
    \o <<8, 0, 0, 0, 2, 0, 0, 0>> \o <<86, 69, 82, 83, 73, 79, 78>> \o <<0, 1, 0>>

\* C11: every returned container starts with the MAGIC record (16-bit, 5000)
\* immediately followed by the VERSION record (16-bit, 1), ahead of every
\* settings record, whatever head and channel settings are given.
C11_MagicVersionFirst ==
    FileReturned =>
        /\ Len(awg_file.value) >= Len(MagicVersionBytes)
        /\ Prefix(awg_file.value, Len(MagicVersionBytes)) = MagicVersionBytes
        /\ LET p == ParseRecords(awg_file.value)
           IN  \A i \in 3..Len(p.recs) : p.recs[i].name \notin {S_MAGIC, S_VERSION}

\* a container with two head settings and two channel settings was returned
C11_Witness ==
    /\ FileReturned
    /\ ~sequence_cfg.none /\ Len(sequence_cfg.x) = 2 /\ Len(channel_cfg) = 2
    /\ Len(awg_file.value) > Len(MagicVersionBytes)


\* the records of a returned container
FileRecords == ParseRecords(awg_file.value).recs

IsWaveformNameRecord(rec) == StartsWith(rec.name, <<87, 65, 86, 69, 70, 79, 82, 77, 95, 78, 65, 77, 69, 95>>)
\* the str written in a name record: the data without the closing NUL
NameWritten(rec) == SubSeq(rec.data, 1, Len(rec.data) - 1)
\* the waveform names of a container in the order they are written
WaveformNamesWritten == 
    LET recs == SelectSeq(FileRecords, IsWaveformNameRecord)
    IN  [i \in 1..Len(recs) |-> NameWritten(recs[i])]

\* C12: the waveforms of the waveform block appear in lexicographically
\* increasing order of their names, whatever the iteration order of
\* packed_waveforms is, and each waveform of the mapping appears once.
C12_WaveformsSorted ==
    FileReturned =>
        /\ Len(WaveformNamesWritten) = Len(packed_waveforms)
        /\ {WaveformNamesWritten[i] : i \in 1..Len(WaveformNamesWritten)}
              = {packed_waveforms[i].k : i \in 1..Len(packed_waveforms)}
        /\ \A i, j \in 1..Len(WaveformNamesWritten) :
              i < j => StrLess(WaveformNamesWritten[i], WaveformNamesWritten[j])

\* a container was returned for a mapping that iterates its waveforms in
\* another order than the sorted one
C12_Witness ==
    /\ FileReturned
    /\ Len(packed_waveforms) = MaxWfs
    /\ \E i \in 1..(Len(packed_waveforms) - 1) :
          StrLess(packed_waveforms[i + 1].k, packed_waveforms[i].k)


\* the unsigned 16-bit little-endian number at bytes i, i+1 of r
LE16(r, i) == r[i] + 256 * r[i + 1]

IsWaveformRecord(rec) == BlockOf(rec.name) = 3
\* the records of the waveform block in the order they are written
WaveformRecordsWritten == SelectSeq(FileRecords, IsWaveformRecord)

\* the record name prefixes of one waveform, in the order of the format
WaveformRecordKinds ==
    <<<<87, 65, 86, 69, 70, 79, 82, 77, 95, 78, 65, 77, 69, 95>>, <<87, 65, 86, 69, 70, 79, 82, 77, 95, 84, 89, 80, 69, 95>>, <<87, 65, 86, 69, 70, 79, 82, 77, 95, 76, 69, 78, 71, 84, 72, 95>>,
      <<87, 65, 86, 69, 70, 79, 82, 77, 95, 84, 73, 77, 69, 83, 84, 65, 77, 80, 95>>, <<87, 65, 86, 69, 70, 79, 82, 77, 95, 68, 65, 84, 65, 95>>>>

\* C13: the records of each waveform are contiguous and in the order NAME,
\* TYPE, LENGTH, TIMESTAMP, DATA; TYPE is 1, TIMESTAMP has 8 fields of 16
\* bits, LENGTH is the number of samples of the waveform, and DATA holds
\* exactly these samples as 16-bit numbers (2 * LENGTH bytes).
C13_WaveformRecords ==
    FileReturned =>
        LET recs == WaveformRecordsWritten
        IN  /\ Len(recs) = 5 * Len(packed_waveforms)
            /\ \A g \in 1..Len(packed_waveforms) :
                  LET base == 5 * (g - 1)
                      samples == DictGet(packed_waveforms, NameWritten(recs[base + 1]))
                  IN  /\ \A f \in 1..5 :
                            StartsWith(recs[base + f].name, WaveformRecordKinds[f])
                      /\ DictHas(packed_waveforms, NameWritten(recs[base + 1]))
                      /\ recs[base + 2].data = <<1, 0>>
                      /\ Len(recs[base + 3].data) = 4
                      /\ LE32(recs[base + 3].data, 1) = Len(samples)
                      /\ Len(recs[base + 4].data) = 16
                      /\ Len(recs[base + 5].data) = 2 * Len(samples)
                      /\ \A j \in 1..Len(samples) :
                            LE16(recs[base + 5].data, 2 * j - 1) = samples[j]

\* a container with a waveform of two samples and one of another length was
\* returned
C13_Witness ==
    /\ FileReturned
    /\ Len(packed_waveforms) >= 2
    /\ \E i, j \in 1..Len(packed_waveforms) :
          Len(packed_waveforms[i].v) = 2 /\ Len(packed_waveforms[j].v) # 2


IsSequenceRecord(rec) == BlockOf(rec.name) = 4
\* the records of the sequence block in the order they are written
SequenceRecordsWritten == SelectSeq(FileRecords, IsSequenceRecord)

\* number of channels with a waveform at element k of the table
NamedAt(k) == Cardinality({r \in 1..Len(wfname_l) : ~wfname_l[r][k].none})
\* number of records written for the elements before element k
RECURSIVE RecordsBefore(_)
RecordsBefore(k) == IF k <= 1 THEN 0 ELSE RecordsBefore(k - 1) + 4 + NamedAt(k - 1)

EndsWith(str, suffix) ==
    /\ Len(str) >= Len(suffix)
    /\ SubSeq(str, Len(str) - Len(suffix) + 1, Len(str)) = suffix

\* C14: for element k (from 1, in table order) the sequence block holds
\* SEQUENCE_WAIT_k, SEQUENCE_LOOP_k, SEQUENCE_JUMP_k and SEQUENCE_GOTO_k in
\* this order with the values trig_wait[k-1], nrep[k-1], jump_to[k-1] and
\* goto_state[k-1], then the waveform-name records of element k, and all
\* records of element k come before those of element k+1.
C14_SequenceElements ==
    FileReturned =>
        LET recs == SequenceRecordsWritten
            K == NumSegments(wfname_l)
        IN  /\ Len(recs) = RecordsBefore(K + 1)
            /\ \A k \in 1..K :
                  LET base == RecordsBefore(k)
                  IN  /\ recs[base + 1].name = <<83, 69, 81, 85, 69, 78, 67, 69, 95, 87, 65, 73, 84, 95>> \o FormatInt(k)
                      /\ Len(recs[base + 1].data) = 2
                      /\ LE16(recs[base + 1].data, 1) = trig_wait[k]
                      /\ recs[base + 2].name = <<83, 69, 81, 85, 69, 78, 67, 69, 95, 76, 79, 79, 80, 95>> \o FormatInt(k)
                      /\ Len(recs[base + 2].data) = 4
                      /\ LE32(recs[base + 2].data, 1) = nrep[k]
                      /\ recs[base + 3].name = <<83, 69, 81, 85, 69, 78, 67, 69, 95, 74, 85, 77, 80, 95>> \o FormatInt(k)
                      /\ Len(recs[base + 3].data) = 2
                      /\ LE16(recs[base + 3].data, 1) = jump_to[k]
                      /\ recs[base + 4].name = <<83, 69, 81, 85, 69, 78, 67, 69, 95, 71, 79, 84, 79, 95>> \o FormatInt(k)
                      /\ Len(recs[base + 4].data) = 2
                      /\ LE16(recs[base + 4].data, 1) = goto_state[k]
                      /\ \A n \in 1..NamedAt(k) :
                            /\ StartsWith(recs[base + 4 + n].name,
                                          <<83, 69, 81, 85, 69, 78, 67, 69, 95, 87, 65, 86, 69, 70, 79, 82, 77, 95, 78, 65, 77, 69, 95, 67, 72, 95>>)
                            /\ EndsWith(recs[base + 4 + n].name,
                                        <<95>> \o FormatInt(k))

\* a container with two sequence elements on two channels was returned
C14_Witness ==
    /\ FileReturned
    /\ NumSegments(wfname_l) = 2 /\ Len(wfname_l) = 2
    /\ NamedAt(1) = 2 /\ NamedAt(2) = 2
    /\ jump_to[1] # goto_state[1] /\ nrep[1] # nrep[2]


\* the waveform-name records of element k of a returned container
NameRecordsAt(k) ==
    {i \in 1..Len(SequenceRecordsWritten) :
        /\ StartsWith(SequenceRecordsWritten[i].name, <<83, 69, 81, 85, 69, 78, 67, 69, 95, 87, 65, 86, 69, 70, 79, 82, 77, 95, 78, 65, 77, 69, 95, 67, 72, 95>>)
        /\ EndsWith(SequenceRecordsWritten[i].name, <<95>> \o FormatInt(k))}

\* C15: for every element k the number of waveform-name records equals the
\* number of channels with a waveform at k, and every such record carries
\* the name of one of these waveforms: an entry that is None gets no record,
\* not one with an empty or null name.
C15_NoRecordForNone ==
    FileReturned =>
        \A k \in 1..NumSegments(wfname_l) :
            /\ Cardinality(NameRecordsAt(k)) = NamedAt(k)
            /\ \A i \in NameRecordsAt(k) :
                  /\ Len(SequenceRecordsWritten[i].data) >= 2
                  /\ \E r \in 1..Len(wfname_l) :
                        /\ ~wfname_l[r][k].none
                        /\ NameWritten(SequenceRecordsWritten[i]) = wfname_l[r][k].x

\* a container was returned for a table in which one channel has no
\* waveform at an element where another channel has one
C15_Witness ==
    /\ FileReturned
    /\ Len(wfname_l) = 2
    /\ \E k \in 1..NumSegments(wfname_l) : NamedAt(k) = 1


\* the head settings written: the ones given, or the ones queried
HeadSettingsUsed ==
    IF sequence_cfg.none THEN generate_sequence_cfg(instrument) ELSE sequence_cfg.x

\* the head, channel and waveform blocks of the call, one after the other
\* (or the first exception raised while they are written)
ThreeBlocks ==
    JoinResults(<<PackAll(HeadRequests(HeadSettingsUsed)),
                  PackAll(ChannelRequests(channel_cfg)),
                  PackAll(WaveformRequests(packed_waveforms, Timetuple(localtime)))>>)

\* the cached channel settings were not asked for, or were read without error
ChannelSettingsRead ==
    preservechannelsettings => generate_channel_cfg(latest).raised = "none"

\* C16: with a sequence table without elements the call does not fail on
\* account of the table and returns exactly head block + channel block +
\* waveform block: the sequence block adds no byte and no record.
C16_EmptyTable ==
    (pc = "done" /\ NumSegments(wfname_l) = 0 /\ ChannelSettingsRead) =>
        /\ awg_file = ThreeBlocks
        /\ awg_file.raised = "none" => SequenceRecordsWritten = <<>>

\* a container with head settings, channel settings and waveforms was
\* returned for a table of two channels without elements
C16_Witness ==
    /\ FileReturned
    /\ Len(wfname_l) = 2 /\ NumSegments(wfname_l) = 0
    /\ Len(packed_waveforms) = 2 /\ Len(channel_cfg) = 2
    /\ ~sequence_cfg.none /\ Len(sequence_cfg.x) = 2
    /\ BlockCount(FileRecords, 1) = 4 /\ BlockCount(FileRecords, 2) = 2
    /\ BlockCount(FileRecords, 3) = 10


\* the dict d without its item at position i
Without(d, i) == SubSeq(d, 1, i - 1) \o SubSeq(d, i + 1, Len(d))

\* positions of the keys of the given head settings that the head whitelist
\* lacks, and of the keys of the channel settings that the channel whitelist
\* lacks (looked up as the code does)
UnknownHeadKeys ==
    IF sequence_cfg.none THEN {}
    ELSE {i \in 1..Len(sequence_cfg.x) :
             ~DictHas(AWG_FILE_FORMAT_HEAD, sequence_cfg.x[i].k)}
UnknownChannelKeys ==
    {i \in 1..Len(channel_cfg) :
        ~DictHas(AWG_FILE_FORMAT_CHANNEL, ChannelKey(channel_cfg[i].k))}

\* the outcome of the call with these head and channel settings and
\* everything else as it is
OutcomeWith(scfg, ccfg) ==
    generate_awg_file(packed_waveforms, wfname_l, nrep, trig_wait, goto_state,
        jump_to, ccfg, scfg, preservechannelsettings, latest, instrument,
        localtime).awg_file

C19_ArgumentsUnchanged ==
    [][GenerateAwgFile =>
          /\ packed_waveforms' = packed_waveforms /\ wfname_l' = wfname_l
          /\ nrep' = nrep /\ trig_wait' = trig_wait
          /\ goto_state' = goto_state /\ jump_to' = jump_to
          /\ sequence_cfg' = sequence_cfg
          /\ channel_cfg' = channel_cfg]_vars

\* C20 (the claim as stated): building a container sends no query and no
\* command to the instrument, also when sequence_cfg is omitted.
C20_NoInstrumentTraffic == pc = "done" => asked = <<>>

\* C30: the i-th waveform in sorted order (i from 1) is written as
\* WAVEFORM_NAME_(20+i), WAVEFORM_TYPE_(20+i), WAVEFORM_LENGTH_(20+i),
\* WAVEFORM_TIMESTAMP_(20+i) and WAVEFORM_DATA_(20+i): the indices start at
\* 21 and are consecutive, the records of one waveform share one index and
\* no index is used by two waveforms.
C30_WaveformIndices ==
    FileReturned =>
        LET recs == WaveformRecordsWritten
        IN  /\ Len(recs) = 5 * Len(packed_waveforms)
            /\ \A i \in 1..Len(packed_waveforms) : \A f \in 1..5 :
                  recs[5 * (i - 1) + f].name = WaveformRecordKinds[f] \o FormatInt(20 + i)
            /\ \A i, j \in 1..Len(recs) : i # j => recs[i].name # recs[j].name
            /\ \A i \in 1..Len(packed_waveforms) :
                  Cardinality({j \in 1..Len(packed_waveforms) :
                      StrLess(packed_waveforms[j].k, NameWritten(recs[5 * (i - 1) + 1]))})
                  = i - 1

\* a container with as many waveforms as the mapping may hold was returned
C30_Witness ==
    /\ FileReturned
    /\ Len(packed_waveforms) = MaxWfs
    /\ WaveformRecordsWritten[Len(WaveformRecordsWritten)].name
          = <<87, 65, 86, 69, 70, 79, 82, 77, 95, 68, 65, 84, 65, 95>> \o FormatInt(20 + MaxWfs)

IsHeadRecord(rec) == BlockOf(rec.name) = 1
\* the records of the head block in the order they are written
HeadRecordsWritten == SelectSeq(FileRecords, IsHeadRecord)

IsWhitelistedHeadItem(item) == DictHas(AWG_FILE_FORMAT_HEAD, item.k)
\* the items of the given head settings whose key is whitelisted, in the
\* iteration order of the mapping
WhitelistedHeadItems == SelectSeq(sequence_cfg.x, IsWhitelistedHeadItem)

\* C25: after MAGIC and VERSION the head block holds exactly one record per
\* key of the given sequence_cfg that the head whitelist has, in the
\* iteration order of sequence_cfg, each with the key as its name and the
\* value packed with the type the whitelist gives for the key.
C25_HeadRecords ==
    (FileReturned /\ ~sequence_cfg.none) =>
        /\ Len(HeadRecordsWritten) = 2 + Len(WhitelistedHeadItems)
        /\ \A j \in 1..Len(WhitelistedHeadItems) :
              /\ HeadRecordsWritten[2 + j].name = WhitelistedHeadItems[j].k
              /\ HeadRecordsWritten[2 + j].data
                    = StructPack(DictGet(AWG_FILE_FORMAT_HEAD, WhitelistedHeadItems[j].k),
                                 <<WhitelistedHeadItems[j].v>>).value

\* a container was returned for head settings with two whitelisted keys
\* given in another order than the one of the whitelist
C25_Witness ==
    /\ FileReturned /\ ~sequence_cfg.none
    /\ Len(WhitelistedHeadItems) = 2
    /\ WhitelistedHeadItems[1].k = S_RUN_MODE
    /\ WhitelistedHeadItems[2].k = S_SAMPLING_RATE
    /\ Len(HeadRecordsWritten[3].data) = 2 /\ Len(HeadRecordsWritten[4].data) = 8

RECURSIVE StripDigits(_)
\* the str without its trailing decimal digits
StripDigits(str) ==
    IF str # <<>> /\ IsDigit(str[Len(str)])
        THEN StripDigits(SubSeq(str, 1, Len(str) - 1)) ELSE str

\* does the key, with its trailing channel index replaced by the
\* placeholder N, name an entry of the channel whitelist
MatchesChannelWhitelist(key) ==
    /\ StripDigits(key) # key
    /\ DictHas(AWG_FILE_FORMAT_CHANNEL, StripDigits(key) \o <<78>>)

\* C24 (the claim as stated): a key of channel_cfg gets a record exactly
\* when the key with its trailing channel index (of one or more digits, and
\* nothing else) stripped is a name of the channel whitelist; the record has
\* the key as its name.
C24_ChannelKeyMatching ==
    FileReturned =>
        \A i \in 1..Len(channel_cfg) :
            (\E j \in 1..Len(FileRecords) : FileRecords[j].name = channel_cfg[i].k)
                <=> MatchesChannelWhitelist(channel_cfg[i].k)

----------------------------------------------------------------------------
(* Properties of repeated calls (checked under SpecRepeat) *)

\* C17 (the claim as stated): a second call with the same arguments at the
\* same timestamp returns the container of the first call, whatever happened
\* to the instrument and to the driver in between.
C17_SameContainerAgain ==
    [][(pc = "generate_awg_file again" /\ GenerateAwgFile) => awg_file' = awg_file]_vars

----------------------------------------------------------------------------
(* Properties of make_send_and_load_awg_file (checked under SpecUpload) *)

\* the positions of the waveforms handed over
UploadPositions ==
    {c \in (1..Len(waveforms)) \X (1..MaxElems + 1) : c[2] <= Len(waveforms[c[1]])}

\* the waveforms among them that pack_waveform rejects
RejectedPositions ==
    {c \in UploadPositions :
        PackValidation(waveforms[c[1]][c[2]], m1s[c[1]][c[2]], m2s[c[1]][c[2]]) # "none"}

\* the messages written that carry (part of) a file, and the load commands
FileMessages == {i \in 1..Len(written) : StartsWith(written[i].data, S_MMEMORY_DATA)}
LoadMessages == {i \in 1..Len(written) : StartsWith(written[i].data, S_SRESTORE)}

\* C21: when one of the waveforms is one that pack_waveform rejects, the
\* call of make_send_and_load_awg_file ends with an exception, and no message
\* carrying file bytes and no load command has been written to the
\* instrument, wherever in the list the rejected waveform stands.
C21_AbortOnPackFailure ==
    (pc = "done" /\ RejectedPositions # {}) =>
        /\ upload.raised # "none"
        /\ FileMessages = {}
        /\ LoadMessages = {}

\* a marker of the last of four waveforms holds a 2: the call ended with
\* the TypeError and only the change of directory was written
C21_Witness ==
    /\ pc = "done"
    /\ RejectedPositions = {<<2, 2>>}
    /\ upload.raised = "TypeError: Marker 2 contains invalid values"
    /\ written = <<Msg("write", S_CDIRECTORY)>>


UploadSent == pc = "done" /\ upload.raised = "none"

\* the bytes of the file in the message written by send_awg_file: what
\* follows the command, the filename and the header '#<digits><size>'
SentFile ==
    LET data == written[CHOOSE i \in FileMessages : TRUE].data
        at == Len(S_MMEMORY_DATA) + Len(S_customawgfile) + 2
    IN  SubSeq(data, at + 3 + (data[at + 2] - 48), Len(data))

\* the waveform-name records of the sequence block of the file sent
SentNameRecords ==
    LET recs == ParseRecords(SentFile).recs
    IN  {i \in 1..Len(recs) :
            StartsWith(recs[i].name, S_SEQUENCE_WAVEFORM_NAME_CH)}

\* C29: in the file sent by make_send_and_load_awg_file, the waveform at row
\* ii and element k has a record SEQUENCE_WAVEFORM_NAME_CH_c_k whose c is the
\* decimal channel number of the row (ii + 1 counting rows from 0, or
\* channels[ii]) and whose value is the name of that waveform, and no two
\* name records have the same record name.
C29_ChannelIdInName ==
    UploadSent =>
        LET recs == ParseRecords(SentFile).recs
        IN  /\ \A c \in UploadPositions :
                  \E i \in SentNameRecords :
                      /\ recs[i].name = S_SEQUENCE_WAVEFORM_NAME_CH
                                        \o FormatInt(ChannelOf(channels, c[1]))
                                        \o <<95>> \o FormatInt(c[2])
                      /\ recs[i].data = UploadName(c[2], ChannelOf(channels, c[1])) \o <<0>>
            /\ \A i, j \in SentNameRecords : i # j => recs[i].name # recs[j].name

----------------------------------------------------------------------------
(* Properties of send_waveform_to_list (checked under SpecList) *)

\* an input send_waveform_to_list is to reject: lengths that differ, a
\* sample below -1 or above 1, or a marker that is neither 0 nor 1
InvalidForList ==
    \/ ~(Len(wf) = Len(m1) /\ Len(m1) = Len(m2))
    \/ \E i \in 1..Len(wf) : FloatLtInt(wf[i], -1) \/ FloatGtInt(wf[i], 1)
    \/ \E i \in 1..Len(m1) : m1[i] \notin {0, 1}
    \/ \E i \in 1..Len(m2) : m2[i] \notin {0, 1}

\* C26: a call of send_waveform_to_list that ends with an exception for an
\* input with differing lengths, a sample outside [-1, 1] or a marker other
\* than 0 and 1 has written no command to the instrument and has left
\* self._values['files'] as it was.
C26_RejectionChangesNothing ==
    [][(SendWaveformToList /\ InvalidForList /\ listed'.raised # "none") =>
            (written' = written /\ files' = files)]_vars

ListSent == pc = "done" /\ listed.raised = "none"

\* the 16-bit values of the data block of the message written last
ListSamplesSent ==
    LET data == written[Len(written)].data
        at == Len(S_WLIST_DATA) + Len(wfmname) + 2
        from == at + 3 + (data[at + 2] - 48)
    IN  [i \in 1..((Len(data) + 1 - from) \div 2) |-> LE16(data, from + 2 * (i - 1))]

\* C28: when send_waveform_to_list has sent a waveform that pack_waveform
\* accepts too, the 16-bit values of the data block are, position by
\* position, samples that pack_waveform returns for the same arguments.
C28_SameEncoding ==
    (ListSent /\ PackValidation(wf, m1, m2) = "none") =>
        Return(ListSamplesSent) \in pack_waveform(wf, m1, m2)

----------------------------------------------------------------------------
(* Properties of is_awg_ready and clear_message_queue (checked under
   SpecSession) *)

\* C22: every call of is_awg_ready ends by returning True, whatever the
\* instrument does, also when the '*OPC?' query times out and the read that
\* follows fails.
C22_AlwaysTrue ==
    pc = "is_awg_ready: done" => (ready.raised = "none" /\ ready.value = TRUE)

Draining == pc \in {"clear_message_queue: read", "clear_message_queue: restore"}

\* C27: when clear_message_queue has returned, the timeout of the visa
\* handle is the one from before the call; before the call and after the
\* return the timeout is the caller's, while the queue is drained it is
\* 1000 ms; and after the read that timed out there is no further read.
C27_TimeoutRestored ==
    /\ pc = "clear_message_queue: done" => timeout = timeout_before
    /\ pc = "clear_message_queue" => timeout = timeout_before
    /\ Draining => timeout = DrainTimeout
    /\ gotexception => pc \in {"clear_message_queue: restore", "clear_message_queue: done"}
    /\ pc = "clear_message_queue: done" => gotexception /\ queue = 0

\* the call has returned with the timeout of 30 s it was entered with
C27_Witness ==
    /\ pc = "clear_message_queue: done"
    /\ timeout_before = 30000
    /\ timeout = 30000
    /\ gotexception

----------------------------------------------------------------------------
(* Properties of load_or_create_experiment (checked under SpecExperiment) *)

\* C23: a call of load_or_create_experiment(name, sample_name) with an
\* experiment of that name and sample name in the database returns that
\* experiment and leaves the experiments as they are; without one (none at
\* all, or only ones of another name or sample name) it adds exactly one
\* experiment, of that name and sample name, which is the one returned and
\* the one load_experiment_by_name returns afterwards.
C23_LoadOrCreateIdempotent ==
    [][LoadOrCreateExperiment =>
          IF Matching(experiments, exp_name', sample_name') # {}
              THEN /\ experiments' = experiments
                   /\ experiment'.raised = "none"
                   /\ \E i \in Matching(experiments, exp_name', sample_name') :
                         experiment'.value = experiments[i]
              ELSE /\ Len(experiments') = Len(experiments) + 1
                   /\ SubSeq(experiments', 1, Len(experiments)) = experiments
                   /\ experiment'.raised = "none"
                   /\ experiment'.value.name = exp_name'
                   /\ experiment'.value.sample_name = sample_name'
                   /\ load_experiment_by_name(experiments', exp_name', sample_name')
                          = experiment']_vars

\* two experiments of one name with different sample names exist, and the
\* last call returned the older one
C23_Witness ==
    /\ Len(experiments) = 2
    /\ experiments[1].name = experiments[2].name
    /\ experiments[1].sample_name # experiments[2].sample_name
    /\ experiment = Return(experiments[1])

=============================================================================
